---- MODULE Spec2Model ----
(***************************************************************************)
(* A model of the gel-analysis pipeline of src/services/imageAnalysis.ts   *)
(* (processGelImage and its helpers) and of the override state kept by     *)
(* src/App.tsx.                                                            *)
(*                                                                         *)
(* Numbers.  The source computes in IEEE doubles.  The model computes in   *)
(* fixed point: an intensity is an integer number of tenths (Q = 10), a    *)
(* value of exp is an integer number of thousandths, and comparisons       *)
(* between rationals are made by cross-multiplication.  The one double     *)
(* that is not a number, NaN (0/0 and everything computed from it), is     *)
(* kept as a value of its own, with the source's rules: arithmetic on NaN  *)
(* gives NaN and every comparison with NaN is false.                       *)
(*                                                                         *)
(* Indices.  The source's arrays are 0-based; the model keeps the source's *)
(* indices (yPeak, yStart, yEnd, x, y) and reads a sequence through At.     *)
(***************************************************************************)
EXTENDS Integers, Sequences, FiniteSets, TLC

\* ------------------------------------------------------------ numbers

\* intensities are held in units of 1/Q
Q == 10

\* the double NaN
NaN == -999999999

IsNaN(a) == a = NaN

Add(a, b) == IF IsNaN(a) \/ IsNaN(b) THEN NaN ELSE a + b

Sub(a, b) == IF IsNaN(a) \/ IsNaN(b) THEN NaN ELSE a - b

\* a > b and a < b on doubles: false when either is NaN
Gt(a, b) == ~IsNaN(a) /\ ~IsNaN(b) /\ a > b

Lt(a, b) == ~IsNaN(a) /\ ~IsNaN(b) /\ a < b

\* Math.max(0, v): NaN when v is NaN
Max0(v) == IF IsNaN(v) THEN NaN ELSE IF v > 0 THEN v ELSE 0

MinI(a, b) == IF a < b THEN a ELSE b

MaxI(a, b) == IF a > b THEN a ELSE b

AbsI(a) == IF a < 0 THEN 0 - a ELSE a

\* arr[i] of a 0-based array
At(arr, i) == arr[i + 1]

RECURSIVE SumSeq(_, _, _)
\* arr[lo] + ... + arr[hi] (0-based, inclusive), as the source's
\* "for (k = lo; k <= hi; k++) acc += arr[k]": 0 for an empty range, NaN when
\* a term is NaN, and NaN too when an index lies outside the array (undefined)
SumSeq(arr, lo, hi) ==
    IF lo > hi THEN 0
    ELSE Add(IF lo >= 0 /\ lo < Len(arr) THEN At(arr, lo) ELSE NaN,
             SumSeq(arr, lo + 1, hi))

\* 1000 * exp(-u / 10000) for 0 <= u <= 10000, by its Taylor polynomial
ExpSmall(u) ==
    LET s  == 10000
        u2 == (u * u) \div s
        u3 == (u2 * u) \div s
        u4 == (u3 * u) \div s
        u5 == (u4 * u) \div s
    IN  s - u + u2 \div 2 - u3 \div 6 + u4 \div 24 - u5 \div 120

RECURSIVE SquareTimes(_, _)
\* p ^ (2 ^ n) at scale 10000
SquareTimes(p, n) == IF n = 0 THEN p ELSE SquareTimes((p * p) \div 10000, n - 1)

\* Math.exp(-t / 1000), in thousandths, for t >= 0
ExpMilli(t) ==
    IF t >= 16000 THEN 0
    ELSE (SquareTimes(ExpSmall((t * 10) \div 16), 4) + 5) \div 10

\* the sequence f held by TLC as a tuple, computed once, and not as a rule
\* that is evaluated again whenever an element is read
Tuple(f) == f \o <<>>

\* ------------------------------------------------------------ smoothing

\* the kernel of gaussianSmooth, before normalisation: sigma = radius / 3, so
\* g(x) is proportional to exp(-9 x^2 / (2 radius^2)); for radius = 0 sigma is
\* 0 and g(0) = Infinity * exp(0/0) = NaN
Kernel(radius) ==
    Tuple([k \in 1..(2 * radius + 1) |->
        IF radius = 0 THEN NaN
        ELSE LET x == k - 1 - radius
             IN  ExpMilli((9000 * x * x) \div (2 * radius * radius))])

RECURSIVE KernelDot(_, _, _, _, _, _)
\* sum over the kernel taps lo..hi of data[clamp(i + offset)] * kernel[k],
\* added up by halves of the range
KernelDot(data, kernel, radius, i, lo, hi) ==
    IF lo > hi THEN 0
    ELSE IF lo = hi
    THEN At(data, MinI(MaxI(i + (lo - 1 - radius), 0), Len(data) - 1)) * kernel[lo]
    ELSE KernelDot(data, kernel, radius, i, lo, (lo + hi) \div 2)
            + KernelDot(data, kernel, radius, i, (lo + hi) \div 2 + 1, hi)

\* the convolution of data with the normalised kernel, the index clamped at
\* both ends; NaN everywhere when the kernel is NaN
Convolve(data, kernel, radius, sum) ==
    Tuple([j \in 1..Len(data) |->
        IF IsNaN(sum) \/ IsNaN(data[j]) THEN NaN
        ELSE KernelDot(data, kernel, radius, j - 1, 1, Len(kernel)) \div sum])

\* kernelSize of gaussianSmooth: windowSize made odd
KernelSize(windowSize) == IF windowSize % 2 = 0 THEN windowSize + 1 ELSE windowSize

SmoothWith(data, kernel, radius) ==
    Convolve(data, kernel, radius, SumSeq(kernel, 0, Len(kernel) - 1))

GaussianSmooth(data, windowSize) ==
    SmoothWith(data, Kernel(KernelSize(windowSize) \div 2), KernelSize(windowSize) \div 2)

\* ------------------------------------------------------------ background

RECURSIVE MinOver(_, _, _, _)
MinOver(data, j, end, min) ==
    IF j > end THEN min
    ELSE MinOver(data, j + 1, end, IF Lt(At(data, j), min) THEN At(data, j) ELSE min)

RECURSIVE MaxOver(_, _, _, _)
MaxOver(data, j, end, max) ==
    IF j > end THEN max
    ELSE MaxOver(data, j + 1, end, IF Gt(At(data, j), max) THEN At(data, j) ELSE max)

\* the min-filter of estimateBackground
Eroded(data, radius) ==
    Tuple([j \in 1..Len(data) |->
        MinOver(data, MaxI(0, j - 1 - radius), MinI(Len(data) - 1, j - 1 + radius), data[j])])

\* the max-filter of estimateBackground
Opened(eroded, radius) ==
    Tuple([j \in 1..Len(eroded) |->
        MaxOver(eroded, MaxI(0, j - 1 - radius), MinI(Len(eroded) - 1, j - 1 + radius),
                eroded[j])])

EstimateBackground(data, radius, smoothing) ==
    GaussianSmooth(Opened(Eroded(data, radius), radius), smoothing)

\* ------------------------------------------------------------ band ids

Digit(d) == <<"0", "1", "2", "3", "4", "5", "6", "7", "8", "9">>[d + 1]

RECURSIVE Digits(_)
\* the decimal digits of n >= 0, as a template literal prints a number
Digits(n) == IF n < 10 THEN <<Digit(n)>> ELSE Digits(n \div 10) \o <<Digit(n % 10)>>

\* `L${laneIndex}-B${k}`: the id of the k-th detected band of a lane
DetectedBandId(laneIndex, k) == <<"L">> \o Digits(laneIndex) \o <<"-", "B">> \o Digits(k)

\* the smear id numbered by smears.length instead of smears.length + 1
SmearIdFromZero(laneIndex, k) == <<"L">> \o Digits(laneIndex) \o <<"-", "S">> \o Digits(k - 1)

\* `L${laneIndex}-S${k}`: the id of the k-th smear of a lane
SmearId(laneIndex, k) == <<"L">> \o Digits(laneIndex) \o <<"-", "S">> \o Digits(k)

\* ------------------------------------------------------------ findBandsAndSmears

RECURSIVE InsertSorted(_, _, _)
\* e put into the sorted sequence s behind every element whose key is not
\* greater than e's: what a stable ascending sort does with one more element;
\* key maps an element to the number it is compared by
InsertSorted(s, e, key) ==
    IF s = <<>> THEN <<e>>
    ELSE IF key[e] < key[Head(s)] THEN <<e>> \o s
    ELSE <<Head(s)>> \o InsertSorted(Tail(s), e, key)

RECURSIVE SortByKey(_, _)
\* Array.prototype.sort((a, b) => key(a) - key(b)): ascending and stable
SortByKey(s, key) ==
    IF s = <<>> THEN <<>>
    ELSE InsertSorted(SortByKey(SubSeq(s, 1, Len(s) - 1), key), s[Len(s)], key)

\* the local maxima of the profile that clear noiseFloor + minProminence
PeakCandidates(profile, settings) ==
    LET len == Len(profile)
        IsPeak(i) ==
            /\ Gt(At(profile, i), At(profile, i - 1))
            /\ Gt(At(profile, i), At(profile, i - 2))
            /\ Gt(At(profile, i), At(profile, i + 1))
            /\ Gt(At(profile, i), At(profile, i + 2))
            /\ At(profile, i) * 10 > settings.noiseTolerance * Q * 10
                                      + settings.minPeakProminence * 255
    IN  SelectSeq([k \in 1..MaxI(0, len - 4) |-> k + 1], IsPeak)

RECURSIVE AcceptPeaks(_, _, _)
\* the greedy pass over the candidates, tallest first
AcceptPeaks(sorted, accepted, minPeakDistance) ==
    IF sorted = <<>> THEN accepted
    ELSE LET p == Head(sorted)
             tooClose == \E k \in 1..Len(accepted) :
                            AbsI(p - accepted[k]) < minPeakDistance
         IN  AcceptPeaks(Tail(sorted),
                         IF tooClose THEN accepted ELSE Append(accepted, p),
                         minPeakDistance)

\* the distance filter: tallest first, then back in ascending position
DistanceFilter(profile, peakIndices, minPeakDistance) ==
    IF minPeakDistance > 0
    THEN SortByKey(AcceptPeaks(SortByKey(peakIndices,
                                         [i \in 0..(Len(profile) - 1) |-> 0 - At(profile, i)]),
                               <<>>, minPeakDistance),
                   [i \in 0..(Len(profile) - 1) |-> i])
    ELSE peakIndices

\* the peak indices that become bands, in ascending position
FilterPeaks(profile, settings) ==
    DistanceFilter(profile, PeakCandidates(profile, settings), settings.minPeakDistance)

RECURSIVE ScanLeftHalf(_, _, _)
ScanLeftHalf(profile, leftX, height) ==
    IF leftX > 0 /\ At(profile, leftX) * 2 > height
    THEN ScanLeftHalf(profile, leftX - 1, height) ELSE leftX

RECURSIVE ScanRightHalf(_, _, _)
ScanRightHalf(profile, rightX, height) ==
    IF rightX < Len(profile) - 1 /\ At(profile, rightX) * 2 > height
    THEN ScanRightHalf(profile, rightX + 1, height) ELSE rightX

\* the Gaussian seeded at a peak; sigma = max(1.0, fwhm / 2.355) is kept as the
\* numerator sigmaNum over 2355
GaussianOf(idx, height, width) ==
    [idx |-> idx, height |-> height,
     sigmaNum |-> MaxI(2355, (IF width = 0 THEN 2 ELSE width) * 1000)]

GaussianAt(profile, idx) ==
    GaussianOf(idx, At(profile, idx),
               ScanRightHalf(profile, idx, At(profile, idx))
                 - ScanLeftHalf(profile, idx, At(profile, idx)))

\* the weight of Gaussian g at sample x, in thousandths of an intensity unit;
\* 0 beyond 4 sigma
\* z * z / 2 of the exponent, in thousandths, for z in thousandths
HalfSquare(z) == (z * z) \div 2000

GaussWeight(g, x) ==
    IF AbsI(x - g.idx) * 2355 <= 4 * g.sigmaNum
    THEN (g.height * ExpMilli(HalfSquare((AbsI(x - g.idx) * 2355 * 1000) \div g.sigmaNum)))
            \div 10
    ELSE 0

RECURSIVE SumWeights(_, _, _)
SumWeights(gaussians, x, k) ==
    IF k > Len(gaussians) THEN 0
    ELSE GaussWeight(gaussians[k], x) + SumWeights(gaussians, x, k + 1)

\* modelSumProfile, in thousandths of an intensity unit (in which the test
\* sumWeights > 0.0001 is sumWeights >= 1, and a smaller sum is 0 already)
ModelSum(profile, gaussians, settings) ==
    Tuple([j \in 1..Len(profile) |->
        IF ~IsNaN(profile[j]) /\ profile[j] <= settings.noiseTolerance * Q THEN 0
        ELSE SumWeights(gaussians, j - 1, 1)])

RECURSIVE WeightedVolume(_, _, _, _)
\* bandVolumes[gIdx]: the share of every sample that the Gaussian claims
WeightedVolume(profile, modelSum, g, x) ==
    IF x >= Len(profile) THEN 0
    ELSE (IF At(modelSum, x) > 0
          THEN (At(profile, x) * GaussWeight(g, x)) \div At(modelSum, x)
          ELSE 0)
         + WeightedVolume(profile, modelSum, g, x + 1)

RECURSIVE ScanStart(_, _, _, _)
\* the walk from the peak to the band's upper boundary
ScanStart(profile, g, s, settings) ==
    IF /\ s > 0
       /\ At(profile, s) > settings.noiseTolerance * Q
       /\ At(profile, s) * 20 > g.height
       /\ (g.idx - s) * 2355 * 100 < settings.bandBoundarySigma * g.sigmaNum * 15
    THEN IF s > 1 /\ At(profile, s - 1) > At(profile, s) + settings.noiseTolerance * Q
         THEN s
         ELSE ScanStart(profile, g, s - 1, settings)
    ELSE s

RECURSIVE ScanEnd(_, _, _, _)
\* the walk from the peak to the band's lower boundary
ScanEnd(profile, g, e, settings) ==
    IF /\ e < Len(profile) - 1
       /\ At(profile, e) > settings.noiseTolerance * Q
       /\ At(profile, e) * 20 > g.height
       /\ (e - g.idx) * 2355 * 100 < settings.bandBoundarySigma * g.sigmaNum * 15
    THEN IF e < Len(profile) - 2
            /\ At(profile, e + 1) > At(profile, e) + settings.noiseTolerance * Q
         THEN e
         ELSE ScanEnd(profile, g, e + 1, settings)
    ELSE e

\* residueProfile, in tenths
Residue(profile, modelSum) ==
    Tuple([j \in 1..Len(profile) |-> Max0(Sub(profile[j], modelSum[j] \div 100))])

\* whether the run smearStart..smearEnd of volume vol becomes a SmearRegion
KeepSmear(smearStart, smearEnd, vol, settings) ==
    /\ smearEnd - smearStart > settings.minPeakDistance * 2
    /\ vol > settings.minPeakProminence * 255
    /\ vol * 2 > 3 * settings.noiseTolerance * Q * (smearEnd - smearStart + 1)

\* the smears after the run smearStart..smearEnd has been closed
CloseRun(residue, smearStart, smearEnd, vol, smears, laneIndex, settings) ==
    IF KeepSmear(smearStart, smearEnd, vol, settings)
    THEN Append(smears, [id |-> SmearId(laneIndex, Len(smears) + 1),
                         yStart |-> smearStart, yEnd |-> smearEnd, volume |-> vol])
    ELSE smears

RECURSIVE ScanSmears(_, _, _, _, _, _)
\* the run-length scan of the residue; a run is closed only by a sample at or
\* below the noise floor
ScanSmears(residue, x, smearStart, smears, laneIndex, settings) ==
    IF x >= Len(residue) THEN smears
    ELSE IF Gt(At(residue, x), settings.noiseTolerance * Q)
    THEN ScanSmears(residue, x + 1, IF smearStart = -1 THEN x ELSE smearStart,
                    smears, laneIndex, settings)
    ELSE IF smearStart = -1
    THEN ScanSmears(residue, x + 1, -1, smears, laneIndex, settings)
    ELSE ScanSmears(residue, x + 1, -1,
                    CloseRun(residue, smearStart, x - 1,
                             SumSeq(residue, smearStart, x - 1),
                             smears, laneIndex, settings),
                    laneIndex, settings)

\* the elements of s in the given order of positions
Permute(s, order) == [k \in 1..Len(s) |-> s[order[k]]]

\* bands.sort((a, b) => a.yPeak - b.yPeak)
SortBands(bands) ==
    Permute(bands, SortByKey([i \in 1..Len(bands) |-> i],
                             [i \in 1..Len(bands) |-> bands[i].yPeak]))

\* the band pushed for the k-th Gaussian
DetectedBand(profile, g, k, modelSum, laneIndex, settings) ==
    [id               |-> DetectedBandId(laneIndex, k),
     laneIndex        |-> laneIndex,
     yPeak            |-> g.idx,
     yStart           |-> ScanStart(profile, g, g.idx, settings),
     yEnd             |-> ScanEnd(profile, g, g.idx, settings),
     volume           |-> WeightedVolume(profile, modelSum, g, 0),
     relativeMobility |-> (g.idx * 1000) \div Len(profile),
     isMainBand       |-> FALSE,
     isExcluded       |-> FALSE,
     isManual         |-> FALSE]

\* the bands and smears, given the fitted Gaussians and their sum
Detection(profile, gaussians, modelSum, laneIndex, settings) ==
    [bands  |-> SortBands([k \in 1..Len(gaussians) |->
                             DetectedBand(profile, gaussians[k], k, modelSum,
                                          laneIndex, settings)]),
     smears |-> ScanSmears(Residue(profile, modelSum), 0, -1, <<>>, laneIndex, settings)]

\* the Gaussians seeded at the given peaks
Gaussians(profile, peakIndices) ==
    [k \in 1..Len(peakIndices) |-> GaussianAt(profile, peakIndices[k])]

FitAndDetect(profile, gaussians, laneIndex, settings) ==
    Detection(profile, gaussians, ModelSum(profile, gaussians, settings), laneIndex, settings)

FindBandsAndSmears(profile, laneIndex, settings) ==
    FitAndDetect(profile, Gaussians(profile, FilterPeaks(profile, settings)),
                 laneIndex, settings)

\* ------------------------------------------------------------ pixels

\* data[i] of a Uint8ClampedArray: undefined (here NaN) outside the buffer
ByteAt(data, i) == IF i >= 0 /\ i < Len(data) THEN At(data, i) ELSE NaN

\* 0.299 R + 0.587 G + 0.114 B of the pixel at byte offset index, in tenths,
\* and 255 minus it when invert is set
GetGrayscaleValue(data, index, invert) ==
    LET r == ByteAt(data, index)
        g == ByteAt(data, index + 1)
        b == ByteAt(data, index + 2)
        val == IF IsNaN(r) \/ IsNaN(g) \/ IsNaN(b) THEN NaN
               ELSE (299 * r + 587 * g + 114 * b) \div 100
    IN  IF invert THEN Sub(255 * Q, val) ELSE val

\* ------------------------------------------------------------ detectLanes

RECURSIVE ISqrt(_, _, _)
\* Math.sqrt, rounded down: the largest r in lo..hi with r * r <= n
ISqrt(n, lo, hi) ==
    IF lo >= hi THEN lo
    ELSE LET mid == (lo + hi + 1) \div 2
         IN  IF mid * mid <= n THEN ISqrt(n, mid, hi) ELSE ISqrt(n, lo, mid - 1)

RECURSIVE ColumnStats(_, _, _, _, _, _, _)
\* <<sum, sumSq, n>> of the sampled rows y, y + 2, ... < sampleBottom of column x
ColumnStats(data, width, x, y, sampleBottom, invert, acc) ==
    IF y >= sampleBottom THEN acc
    ELSE LET val == GetGrayscaleValue(data, (y * width + x) * 4, invert)
         IN  ColumnStats(data, width, x, y + 2, sampleBottom, invert,
                         <<acc[1] + val, acc[2] + val * val, acc[3] + 1>>)

\* varProfile: the standard deviation of each column over the sampled rows
\* sqrt(max(0, sumSq / n - (sum / n)^2)) of st = <<sum, sumSq, n>>, 0 when n = 0
StdDev(st) ==
    IF st[3] > 0
    THEN ISqrt(MaxI(0, st[3] * st[2] - st[1] * st[1]), 0, 46340) \div st[3]
    ELSE 0

VarProfile(width, height, data, settings) ==
    Tuple([c \in 1..width |->
        StdDev(ColumnStats(data, width, c - 1, height \div 10, (height * 9) \div 10,
                           ~settings.invertImage, <<0, 0, 0>>))])

\* whether column i is a local maximum above the threshold 0.2 * sensitivity
\* of the normalised profile
IsLanePeak(smoothed, maxVal, i, settings) ==
    /\ At(smoothed, i) * 50 > settings.laneDetectionSensitivity * maxVal
    /\ At(smoothed, i) > At(smoothed, i - 1)
    /\ At(smoothed, i) > At(smoothed, i + 1)

\* the columns i .. width - 11 that are local maxima above the threshold, left
\* to right
LanePeakColumns(smoothed, maxVal, i, settings) ==
    LET IsPeak(c) == IsLanePeak(smoothed, maxVal, c, settings)
    IN  SelectSeq([k \in 1..MaxI(0, Len(smoothed) - 10 - i) |-> k + i - 1], IsPeak)

RECURSIVE KeepCenters(_, _, _)
\* the loop's pushes: a peak is kept when no centre was kept yet or it lies
\* more than width / 30 beyond the last one kept
KeepCenters(peaks, centers, width) ==
    IF peaks = <<>> THEN centers
    ELSE KeepCenters(Tail(peaks),
                     IF centers = <<>> \/ (Head(peaks) - centers[Len(centers)]) * 30 > width
                     THEN Append(centers, Head(peaks)) ELSE centers,
                     width)

\* the local maxima above the threshold, left to right, each more than
\* width / 30 beyond the last one kept
LaneCenters(smoothed, maxVal, i, centers, settings) ==
    KeepCenters(LanePeakColumns(smoothed, maxVal, i, settings), centers, Len(smoothed))

RECURSIVE ScanDown(_, _, _)
\* from an edge lane's centre leftward to where the profile is half the peak
ScanDown(smoothed, scan, center) ==
    IF scan > 0 /\ At(smoothed, scan) * 2 > At(smoothed, center)
    THEN ScanDown(smoothed, scan - 1, center) ELSE scan

RECURSIVE ScanUp(_, _, _)
\* from an edge lane's centre rightward to where the profile is half the peak
ScanUp(smoothed, scan, center) ==
    IF scan < Len(smoothed) - 1 /\ At(smoothed, scan) * 2 > At(smoothed, center)
    THEN ScanUp(smoothed, scan + 1, center) ELSE scan

\* twice the left edge when a later lane starts at the centre before it
\* and not midway between the two centres
Left2AtCentreBefore(smoothed, centers, k) ==
    IF k = 1
    THEN MaxI(0, 2 * centers[k] - (centers[k] - ScanDown(smoothed, centers[k], centers[k])) * 3)
    ELSE 2 * centers[k - 1]

\* twice the left edge of the k-th lane
Left2(smoothed, centers, k) ==
    IF k = 1
    THEN MaxI(0, 2 * centers[k] - (centers[k] - ScanDown(smoothed, centers[k], centers[k])) * 3)
    ELSE centers[k - 1] + centers[k]

\* twice the right edge of the k-th lane
Right2(smoothed, centers, k) ==
    IF k = Len(centers)
    THEN MinI(2 * Len(smoothed),
              2 * centers[k] + (ScanUp(smoothed, centers[k], centers[k]) - centers[k]) * 3)
    ELSE centers[k] + centers[k + 1]

\* the rectangle between the edges left2 / 2 and right2 / 2, shrunk by laneMargin
RectBetween(left2, right2, height, settings) ==
    [x      |-> (200 * left2 + (right2 - left2) * settings.laneMargin) \div 400,
     y      |-> 0,
     width  |-> ((right2 - left2) * (100 - settings.laneMargin)) \div 200,
     height |-> height]

RECURSIVE MaxIn(_, _, _)
\* the greatest of s[lo..hi], found by halves of the range
MaxIn(s, lo, hi) ==
    IF lo = hi THEN s[lo]
    ELSE MaxI(MaxIn(s, lo, (lo + hi) \div 2), MaxIn(s, (lo + hi) \div 2 + 1, hi))

\* Math.max(...s) of a sequence that is not empty
SeqMax(s) == MaxIn(s, 1, Len(s))

\* the rectangles of the lanes centred at centers
LaneRects(smoothed, centers, height, settings) ==
    [k \in 1..Len(centers) |->
        RectBetween(Left2(smoothed, centers, k), Right2(smoothed, centers, k),
                    height, settings)]

\* detectLanes from the smoothed column profile on
LanesOf(smoothed, maxVal, height, settings) ==
    IF maxVal = 0 THEN <<>>
    ELSE LaneRects(smoothed, LaneCenters(smoothed, maxVal, 10, <<>>, settings),
                   height, settings)

\* (of no columns Math.max() is -Infinity, and the scan finds no centre)
LanesOfProfile(smoothed, height, settings) ==
    IF smoothed = <<>> THEN <<>>
    ELSE LanesOf(smoothed, SeqMax(smoothed), height, settings)

DetectLanes(width, height, data, settings) ==
    LanesOfProfile(GaussianSmooth(VarProfile(width, height, data, settings), 30),
                   height, settings)

\* ------------------------------------------------------------ processGelImage

\* no id: what reading a missing key gives.  An id is a sequence of
\* characters, so this is also the empty string, which the source's
\* "if (forcedMainId)" treats the same way
NoId == <<>>

\* the cropped copy of the pixels; a byte the source buffer does not have is
\* stored as 0
\* what a Uint8ClampedArray stores for the value v: 0 for undefined
Stored(v) == IF IsNaN(v) THEN 0 ELSE v

CropData(origData, origW, cropX, cropY, cropW, cropH) ==
    Tuple([n \in 1..(cropW * cropH * 4) |->
        Stored(ByteAt(origData,
                      ((cropY + ((n - 1) \div (cropW * 4))) * origW + cropX) * 4
                        + ((n - 1) % (cropW * 4))))])

GridRectsFullMargin(width, height, settings) ==
    [k \in 1..settings.numLanes |->
        [x      |-> (width * (100 * (k - 1) + settings.laneMargin))
                        \div (100 * settings.numLanes),
         y      |-> 0,
         width  |-> (width * (100 - settings.laneMargin)) \div (100 * settings.numLanes),
         height |-> height]]

\* the uniform grid of numLanes lanes
GridRects(width, height, settings) ==
    [k \in 1..settings.numLanes |->
        [x      |-> (width * (200 * (k - 1) + settings.laneMargin))
                        \div (200 * settings.numLanes),
         y      |-> 0,
         width  |-> (width * (100 - settings.laneMargin)) \div (100 * settings.numLanes),
         height |-> height]]

RECURSIVE RowSum(_, _, _, _, _, _, _)
\* the sum of the sampled intensities of row imgY over the lane's columns
\* lo..hi, added up by halves of the range
RowSum(data, width, rect, imgY, lo, hi, invert) ==
    IF lo > hi THEN 0
    ELSE IF lo = hi
    THEN GetGrayscaleValue(data, (imgY * width + (rect.x + lo)) * 4, invert)
    ELSE Add(RowSum(data, width, rect, imgY, lo, (lo + hi) \div 2, invert),
             RowSum(data, width, rect, imgY, (lo + hi) \div 2 + 1, hi, invert))

\* rawProfile: the row means of the lane; 0 / 0 is NaN
RowMean(rowSum, n) == IF n = 0 \/ IsNaN(rowSum) THEN NaN ELSE rowSum \div n

RawProfile(data, width, rect, settings) ==
    Tuple([r \in 1..rect.height |->
        RowMean(RowSum(data, width, rect, rect.y + r - 1, 0, rect.width - 1,
                       ~settings.invertImage),
                rect.width)])

\* the volume of a window: the direct sum of the net profile over it
WindowVolumeOpen(netProfile, yStart, yEnd) == SumSeq(netProfile, yStart, yEnd - 1)

WindowVolume(netProfile, yStart, yEnd) == SumSeq(netProfile, yStart, yEnd)

\* a caller's band as it is pushed onto the lane's bands
UserBand(ub, netProfile, rect) ==
    [ub EXCEPT !.yStart = MaxI(0, ub.yStart),
               !.yEnd = MinI(Len(netProfile) - 1, ub.yEnd),
               !.volume = WindowVolume(netProfile, MaxI(0, ub.yStart),
                                       MinI(Len(netProfile) - 1, ub.yEnd)),
               !.relativeMobility = (ub.yPeak * 1000) \div rect.height,
               !.isExcluded = FALSE]

\* excludedBands.includes(id)
Includes(list, id) == \E k \in 1..Len(list) : list[k] = id

\* a band after its boundary adjustment, volume recomputation and exclusion
\* the band b with the window yStart..yEnd, its volume and its exclusion
WithWindow(b, yStart, yEnd, netProfile, overrides) ==
    [b EXCEPT !.yStart = yStart,
              !.yEnd = yEnd,
              !.volume = WindowVolume(netProfile, yStart, yEnd),
              !.isExcluded = Includes(overrides.excludedBands, b.id)]

AdjustBand(b, netProfile, overrides) ==
    IF b.id \in DOMAIN overrides.bandAdjustments
    THEN WithWindow(b, MaxI(0, overrides.bandAdjustments[b.id].yStart),
                    MinI(Len(netProfile) - 1, overrides.bandAdjustments[b.id].yEnd),
                    netProfile, overrides)
    ELSE WithWindow(b, b.yStart, b.yEnd, netProfile, overrides)

RECURSIVE FindById(_, _, _)
\* activeBands.find(b => b.id === id): the position of the first match, 0 if none
FindById(bands, id, k) ==
    IF k > Len(bands) THEN 0
    ELSE IF bands[k].id = id THEN k ELSE FindById(bands, id, k + 1)

RECURSIVE MaxVolumeBand(_, _, _)
\* activeBands.reduce((prev, current) => prev.volume > current.volume ? prev : current):
\* the position the reduction ends on, having reached prev and looking at k
MaxVolumeBand(bands, prev, k) ==
    IF k > Len(bands) THEN prev
    ELSE MaxVolumeBand(bands,
                       IF Gt(bands[prev].volume, bands[k].volume) THEN prev ELSE k,
                       k + 1)

\* the main band of a lane: a band record, or NoBand
NoBand == [id |-> NoId]

MainBandUnforced(activeBands, forced) ==
    IF Len(activeBands) > 0 THEN activeBands[MaxVolumeBand(activeBands, 1, 2)]
    ELSE NoBand

\* the main band, forced being the position of the forced band (0 if none)
MainBandOr(activeBands, forced) ==
    IF forced # 0 THEN activeBands[forced]
    ELSE IF Len(activeBands) > 0 THEN activeBands[MaxVolumeBand(activeBands, 1, 2)]
    ELSE NoBand

SelectMainBand(activeBands, forcedMainId) ==
    MainBandOr(activeBands,
               IF forcedMainId # NoId THEN FindById(activeBands, forcedMainId, 1) ELSE 0)

RECURSIVE BandRollupStrict(_, _, _, _)
BandRollupStrict(activeBands, k, mbY, acc) ==
    IF k > Len(activeBands) THEN acc
    ELSE BandRollupStrict(activeBands, k + 1, mbY,
                          IF activeBands[k].yPeak < mbY
                          THEN <<Add(acc[1], activeBands[k].volume), acc[2]>>
                          ELSE <<acc[1], Add(acc[2], activeBands[k].volume)>>)

RECURSIVE BandRollup(_, _, _, _)
\* activeBands.forEach: <<bandedVolume, degradationVolume>> after the bands
\* from position k on are added to acc
BandRollup(activeBands, k, mbY, acc) ==
    IF k > Len(activeBands) THEN acc
    ELSE BandRollup(activeBands, k + 1, mbY,
                    IF activeBands[k].yPeak <= mbY
                    THEN <<Add(acc[1], activeBands[k].volume), acc[2]>>
                    ELSE <<acc[1], Add(acc[2], activeBands[k].volume)>>)

RECURSIVE SmearRollupByStart(_, _, _, _)
SmearRollupByStart(smears, k, mbY, acc) ==
    IF k > Len(smears) THEN acc
    ELSE SmearRollupByStart(smears, k + 1, mbY,
                            IF smears[k].yStart <= mbY
                            THEN <<Add(acc[1], smears[k].volume), acc[2]>>
                            ELSE <<acc[1], Add(acc[2], smears[k].volume)>>)

RECURSIVE SmearRollup(_, _, _, _)
\* smears.forEach: a smear is placed by its centre (yStart + yEnd) / 2
SmearRollup(smears, k, mbY, acc) ==
    IF k > Len(smears) THEN acc
    ELSE SmearRollup(smears, k + 1, mbY,
                     IF smears[k].yStart + smears[k].yEnd <= 2 * mbY
                     THEN <<Add(acc[1], smears[k].volume), acc[2]>>
                     ELSE <<acc[1], Add(acc[2], smears[k].volume)>>)

\* <<bandedVolume, degradationVolume>> of a lane
Rollup(activeBands, smears, mainBand, totalLaneVolume) ==
    IF mainBand # NoBand
    THEN SmearRollup(smears, 1, mainBand.yPeak,
                     BandRollup(activeBands, 1, mainBand.yPeak, <<0, 0>>))
    ELSE <<0, totalLaneVolume>>

IntegrityScoreOfSmear(bandedVolume, degradationVolume, mainBand) ==
    IF Gt(Add(bandedVolume, degradationVolume), 0) /\ mainBand # NoBand
    THEN (degradationVolume * 10000) \div Add(bandedVolume, degradationVolume)
    ELSE 0

\* integrityScore, in hundredths of a percent
IntegrityScore(bandedVolume, degradationVolume, mainBand) ==
    IF Gt(Add(bandedVolume, degradationVolume), 0) /\ mainBand # NoBand
    THEN (bandedVolume * 10000) \div Add(bandedVolume, degradationVolume)
    ELSE 0

\* the LaneData record; it also keeps the local mainBand (the band chosen, or
\* NoBand), which the source does not return
LaneRecord(laneIndex, rect, cropX, cropY, smoothedRaw, backgroundProfile, netProfile, bands, smears, totalLaneVolume, rollup, mainBand) ==
    [index             |-> laneIndex,
     rect              |-> [x |-> rect.x + cropX, y |-> rect.y + cropY,
                            width |-> rect.width, height |-> rect.height],
     rawProfile        |-> smoothedRaw,
     backgroundProfile |-> backgroundProfile,
     netProfile        |-> netProfile,
     bands             |-> bands,
     smears            |-> smears,
     totalLaneVolume   |-> totalLaneVolume,
     mainBandVolume    |-> rollup[1],
     degradationVolume |-> rollup[2],
     integrityScore    |-> IntegrityScore(rollup[1], rollup[2], mainBand),
     mainBand          |-> mainBand]

\* bands with isMainBand set on the main band's id, when there is a main band
MarkMainBand(bands, mainBand) ==
    IF mainBand # NoBand
    THEN [k \in 1..Len(bands) |-> [bands[k] EXCEPT !.isMainBand = (bands[k].id = mainBand.id)]]
    ELSE bands

NotExcluded(b) == ~b.isExcluded

\* the lane from the choice of its main band on
LaneWithMain(laneIndex, rect, cropX, cropY, smoothedRaw, backgroundProfile, netProfile, bands, smears, totalLaneVolume, mainBand) ==
    LaneRecord(laneIndex, rect, cropX, cropY, smoothedRaw, backgroundProfile, netProfile,
               MarkMainBand(bands, mainBand), smears, totalLaneVolume,
               Rollup(SelectSeq(bands, NotExcluded), smears, mainBand, totalLaneVolume),
               mainBand)

\* manualOverrides.mainBands[laneIndex]
ForcedMainId(overrides, laneIndex) ==
    IF laneIndex \in DOMAIN overrides.mainBands THEN overrides.mainBands[laneIndex] ELSE NoId

\* manualOverrides.userBands[laneIndex] || []
UserBandsForLane(overrides, laneIndex) ==
    IF laneIndex \in DOMAIN overrides.userBands THEN overrides.userBands[laneIndex] ELSE <<>>

\* the lane from its merged, sorted and adjusted bands on
LaneWithBands(laneIndex, rect, cropX, cropY, smoothedRaw, backgroundProfile, netProfile, bands, smears, overrides) ==
    LaneWithMain(laneIndex, rect, cropX, cropY, smoothedRaw, backgroundProfile, netProfile,
                 bands, smears, SumSeq(netProfile, 0, Len(netProfile) - 1),
                 SelectMainBand(SelectSeq(bands, NotExcluded),
                                ForcedMainId(overrides, laneIndex)))

\* detected bands, then the caller's bands, sorted by yPeak
MergeBands(detected, userBandsForLane, netProfile, rect) ==
    SortBands(detected \o [k \in 1..Len(userBandsForLane) |->
                              UserBand(userBandsForLane[k], netProfile, rect)])

AdjustBands(bands, netProfile, overrides) ==
    [k \in 1..Len(bands) |-> AdjustBand(bands[k], netProfile, overrides)]

\* the lane from the detection on its net profile on
LaneWithDetection(laneIndex, rect, cropX, cropY, smoothedRaw, backgroundProfile, netProfile, detection, overrides) ==
    LaneWithBands(laneIndex, rect, cropX, cropY, smoothedRaw, backgroundProfile, netProfile,
                  AdjustBands(MergeBands(detection.bands,
                                         UserBandsForLane(overrides, laneIndex),
                                         netProfile, rect),
                              netProfile, overrides),
                  detection.smears, overrides)

\* netProfile: max(0, smoothedRaw - background), sample by sample
NetProfile(smoothedRaw, backgroundProfile) ==
    Tuple([j \in 1..Len(smoothedRaw) |-> Max0(Sub(smoothedRaw[j], backgroundProfile[j]))])

LaneWithNet(laneIndex, rect, cropX, cropY, smoothedRaw, backgroundProfile, netProfile, settings, overrides) ==
    LaneWithDetection(laneIndex, rect, cropX, cropY, smoothedRaw, backgroundProfile,
                      netProfile, FindBandsAndSmears(netProfile, laneIndex, settings),
                      overrides)

LaneWithBackground(laneIndex, rect, cropX, cropY, smoothedRaw, backgroundProfile, settings, overrides) ==
    LaneWithNet(laneIndex, rect, cropX, cropY, smoothedRaw, backgroundProfile,
                NetProfile(smoothedRaw, backgroundProfile), settings, overrides)

LaneWithProfile(laneIndex, rect, cropX, cropY, smoothedRaw, settings, overrides) ==
    LaneWithBackground(laneIndex, rect, cropX, cropY, smoothedRaw,
                       EstimateBackground(smoothedRaw, settings.backgroundRollingBallRadius,
                                          settings.backgroundSmoothing),
                       settings, overrides)

\* the body of laneRects.forEach: the LaneData of one lane rectangle
ProcessLane(rect, laneIndex, width, data, cropX, cropY, settings, overrides) ==
    LaneWithProfile(laneIndex, rect, cropX, cropY,
                    GaussianSmooth(RawProfile(data, width, rect, settings),
                                   settings.smoothing),
                    settings, overrides)

RectsNoFallback(detected, width, height, settings) == detected

\* detectLanes' rectangles, or the uniform grid when there are none
RectsOrGrid(detected, width, height, settings) ==
    IF Len(detected) = 0 THEN GridRects(width, height, settings) ELSE detected

\* laneRects of processGelImage
SegmentLanes(width, height, data, settings) ==
    IF settings.autoDetectLanes
    THEN RectsOrGrid(DetectLanes(width, height, data, settings), width, height, settings)
    ELSE GridRects(width, height, settings)

ProcessRectsFromZero(laneRects, width, data, cropX, cropY, settings, overrides) ==
    [k \in 1..Len(laneRects) |->
        ProcessLane(laneRects[k], k - 1, width, data, cropX, cropY, settings, overrides)]

\* laneRects.forEach: the lanes in the order of their rectangles, numbered from 1
ProcessRects(laneRects, width, data, cropX, cropY, settings, overrides) ==
    [k \in 1..Len(laneRects) |->
        ProcessLane(laneRects[k], k, width, data, cropX, cropY, settings, overrides)]

\* processGelImage from the cropped copy on
ProcessCropped(data, cropX, cropY, cropW, cropH, settings, overrides) ==
    ProcessRects(SegmentLanes(cropW, cropH, data, settings), cropW, data, cropX, cropY,
                 settings, overrides)

ProcessCropNegativeOnly(image, cropX, cropY, cropW, cropH, settings, overrides) ==
    IF cropW < 0 \/ cropH < 0 THEN <<>>
    ELSE ProcessCropped(CropData(image.data, image.width, cropX, cropY, cropW, cropH),
                        cropX, cropY, cropW, cropH, settings, overrides)

\* processGelImage with the crop rectangle computed
ProcessCrop(image, cropX, cropY, cropW, cropH, settings, overrides) ==
    IF cropW <= 0 \/ cropH <= 0 THEN <<>>
    ELSE ProcessCropped(CropData(image.data, image.width, cropX, cropY, cropW, cropH),
                        cropX, cropY, cropW, cropH, settings, overrides)

\* processGelImage: the list of LaneData
ProcessGelImage(image, settings, overrides) ==
    ProcessCrop(image,
                (settings.roiLeft * image.width) \div 100,
                (settings.roiTop * image.height) \div 100,
                ((100 - settings.roiRight - settings.roiLeft) * image.width) \div 100,
                ((100 - settings.roiBottom - settings.roiTop) * image.height) \div 100,
                settings, overrides)

\* ------------------------------------------------------------ inputs

\* the largest numLanes tried
MaxLanes == 2

\* the height, in rows, of the images of the lane-aggregation runs
GelHeight == 14

\* an opaque grey image: pixel (x, y) has R = G = B = grey[y + 1][x + 1]
GreyImage(grey) ==
    LET h == Len(grey)
        w == Len(grey[1])
    IN  [width |-> w, height |-> h,
         data |-> [n \in 1..(w * h * 4) |->
                     IF (n - 1) % 4 = 3 THEN 255
                     ELSE grey[(((n - 1) \div 4) \div w) + 1][(((n - 1) \div 4) % w) + 1]]]

\* the image whose columns have the given row profiles
ColumnsImage(cols) ==
    GreyImage([r \in 1..Len(cols[1]) |-> [c \in 1..Len(cols) |-> cols[c][r]]])

\* row profiles, as grey levels, cut or padded with background to GelHeight rows
Rows(levels) == [r \in 1..GelHeight |-> IF r <= Len(levels) THEN levels[r] ELSE 0]

\* one band, then a broad low elevation
BandAndSmear == Rows(<<0, 0, 10, 100, 10, 0, 0, 30, 30, 30, 30, 30, 0, 0>>)

\* two bands of different size
TwoBands == Rows(<<0, 5, 40, 150, 40, 6, 50, 90, 50, 0, 0, 0, 0, 0>>)

\* no signal at all
Flat == Rows(<<>>)

\* a band cut by the end of the profile: it peaks two rows before the end
\* and stays almost as bright down to the last row
BandAtEnd ==
    [r \in 1..GelHeight |->
        IF r < GelHeight - 2 THEN 0 ELSE IF r = GelHeight - 2 THEN 230 ELSE 226]

\* one band, then a broad low elevation that lasts to the last row
BandThenTail ==
    [r \in 1..GelHeight |->
        IF r = 4 THEN 100 ELSE IF r \in {3, 5} THEN 10 ELSE IF r > GelHeight - 5 THEN 30 ELSE 0]

\* two broad low elevations and no band
TwoSmears == Rows(<<0, 20, 20, 20, 20, 0, 0, 20, 20, 20, 20, 0, 0, 0>>)

GelImages ==
    { ColumnsImage(<<BandAndSmear, TwoBands>>),
      ColumnsImage(<<TwoBands, Flat>>),
      ColumnsImage(<<Flat, BandAndSmear>>),
      ColumnsImage(<<BandAtEnd, BandThenTail>>),
      ColumnsImage(<<TwoSmears, TwoSmears>>) }

\* `L${selectedLane}-M${Date.now()}`: the id of a manual band
ManualBandId(laneIndex, stamp) == <<"L">> \o Digits(laneIndex) \o <<"-", "M">> \o Digits(stamp)

\* a manual band as the caller hands it over (volume and relativeMobility are
\* placeholders that the pipeline recomputes)
ManualBand(laneIndex, stamp, yPeak, yStart, yEnd) ==
    [id               |-> ManualBandId(laneIndex, stamp),
     laneIndex        |-> laneIndex,
     yPeak            |-> yPeak,
     yStart           |-> yStart,
     yEnd             |-> yEnd,
     volume           |-> 0,
     relativeMobility |-> 0,
     isMainBand       |-> FALSE,
     isExcluded       |-> FALSE,
     isManual         |-> TRUE]

\* the settings of the lane-aggregation runs: a short profile needs short windows
SmallSettings ==
    [autoDetectLanes             |-> FALSE,
     numLanes                    |-> 1,
     laneMargin                  |-> 0,
     laneDetectionSensitivity    |-> 11,
     roiTop                      |-> 0,
     roiBottom                   |-> 0,
     roiLeft                     |-> 0,
     roiRight                    |-> 0,
     invertImage                 |-> TRUE,
     backgroundSubtractionMethod |-> "rollingBall",
     backgroundRollingBallRadius |-> 3,
     backgroundSmoothing         |-> 3,
     minPeakProminence           |-> 2,
     smoothing                   |-> 3,
     minPeakDistance             |-> 1,
     noiseTolerance              |-> 3,
     bandBoundarySigma           |-> 25,
     showBackgroundProfile       |-> TRUE]

GelSettingsChoices ==
    { [SmallSettings EXCEPT !.numLanes = n, !.laneMargin = m, !.invertImage = inv] :
        n \in 1..MaxLanes, m \in {0, 10}, inv \in {TRUE} }
    \cup { [SmallSettings EXCEPT !.invertImage = FALSE],
           [SmallSettings EXCEPT !.backgroundSubtractionMethod = "none"],
           [SmallSettings EXCEPT !.minPeakDistance = 4],
           [SmallSettings EXCEPT !.numLanes = MaxLanes, !.backgroundRollingBallRadius = 5] }

\* the windows (yPeak, yStart, yEnd) a caller's band may carry: inside the
\* profile, reaching beyond its end, and placed at row 20 of a longer profile
\* (yPeak - 10 .. yPeak + 10, as handleChartClick makes it) before the region
\* of interest was cut down to GelHeight rows
ManualWindows == { <<4, 2, 5>>, <<8, 7, 20>>, <<20, 10, 30>> }

\* the userBands a caller may supply: up to MaxManual bands on lane 1
MaxManual == 1

RECURSIVE ManualLists(_)
ManualLists(n) ==
    IF n = 0 THEN { <<>> }
    ELSE ManualLists(n - 1) \cup
         { Append(l, ManualBand(1, n, w[1], w[2], w[3])) :
             l \in { m \in ManualLists(n - 1) : Len(m) = n - 1 }, w \in ManualWindows }

\* two bands that handleChartClick made while Date.now() gave the same value
SameStamp == <<ManualBand(1, 1, 4, 2, 5), ManualBand(1, 1, 8, 7, 20)>>

UserBandsChoices ==
    { IF l = <<>> THEN <<>> ELSE [k \in {1} |-> l] : l \in ManualLists(MaxManual) \cup {SameStamp} }

ExcludedChoices ==
    { <<>>,
      <<DetectedBandId(1, 1)>>,
      <<ManualBandId(1, 1)>>,
      <<DetectedBandId(1, 1), DetectedBandId(1, 2), ManualBandId(1, 1)>> }

MainBandChoices ==
    { <<>> } \cup { [k \in {1} |-> id] : id \in { DetectedBandId(1, 2), ManualBandId(1, 1) } }

AdjustmentChoices ==
    { <<>> } \cup
    { [i \in {id} |-> [yStart |-> w[1], yEnd |-> w[2]]] :
        id \in { DetectedBandId(1, 1) }, w \in { <<2, 4>>, <<6, 9>> } }

\* the width and height of the images of the lane-segmentation runs
WideWidth == 44

WideHeight == 6

\* a lane's columns have a bright band in rows 3 and 4; the gel between lanes
\* is even
LaneColumn == [r \in 1..WideHeight |-> IF r \in {3, 4} THEN 200 ELSE 20]

GapColumn == [r \in 1..WideHeight |-> 20]

\* two lanes, centred at columns 11 and 31
TwoLanes ==
    ColumnsImage([c \in 1..WideWidth |->
                    IF (c - 1) \in 8..14 \/ (c - 1) \in 28..34 THEN LaneColumn ELSE GapColumn])

\* an even image: no column varies
Even == ColumnsImage([c \in 1..WideWidth |-> GapColumn])

\* the bytes missing from the end of a malformed buffer
MissingBytes == 8

\* image with its buffer cut short: data.length is not width * height * 4
Truncated(image) ==
    [image EXCEPT !.data = SubSeq(image.data, 1, Len(image.data) - MissingBytes)]

\* the lane a lane of the image has when its band is faint
FaintColumn == [r \in 1..WideHeight |-> IF r \in {3, 4} THEN 80 ELSE 20]

\* two lanes, the second of them faint
FaintLane ==
    ColumnsImage([c \in 1..WideWidth |->
                    IF (c - 1) \in 8..14 THEN LaneColumn
                    ELSE IF (c - 1) \in 28..34 THEN FaintColumn ELSE GapColumn])

WideImages == { TwoLanes, Even, Truncated(TwoLanes), FaintLane }

\* the width of the images whose lanes lie closer than a thirtieth of it
BroadWidth == 450

\* two lanes of five columns each, fourteen columns apart, with bands of the
\* given grey levels
TwoMounds(first, second) ==
    LET grey == [c \in 1..BroadWidth |->
                    IF (c - 1) \in 98..102 THEN first
                    ELSE IF (c - 1) \in 112..116 THEN second ELSE 0]
    IN  [width |-> BroadWidth, height |-> WideHeight,
         data |-> Tuple([n \in 1..(BroadWidth * WideHeight * 4) |->
                     IF (n - 1) % 4 = 3 THEN 255
                     ELSE IF (((n - 1) \div 4) \div BroadWidth) \in {2, 3}
                     THEN grey[(((n - 1) \div 4) % BroadWidth) + 1] ELSE 0])]

BroadImages == { TwoMounds(200, 255), TwoMounds(255, 200) }

WellFormed(image) == Len(image.data) = image.width * image.height * 4

\* <<roiLeft, roiRight, roiTop, roiBottom>>: the whole image, parts of it, a
\* width of 0 % and of -10 %, a height of 0 %, and a width below one pixel
RoiChoices ==
    { <<0, 0, 0, 0>>, <<10, 10, 0, 0>>, <<3, 0, 20, 0>>, <<50, 50, 0, 0>>,
      <<60, 50, 0, 0>>, <<0, 0, 50, 50>>, <<0, 98, 0, 0>> }

\* laneDetectionSensitivity, in tenths: the default 1.1 and the greatest, 2.0
Sensitivities == {11, 20}

LaneSettingsWith(auto, sensitivities) ==
    { [SmallSettings EXCEPT !.autoDetectLanes = auto, !.numLanes = n, !.laneMargin = m,
                            !.laneDetectionSensitivity = sens,
                            !.roiLeft = roi[1], !.roiRight = roi[2],
                            !.roiTop = roi[3], !.roiBottom = roi[4]] :
        n \in 1..(MaxLanes + 1), m \in {0, 10, 50}, roi \in RoiChoices,
        sens \in sensitivities }

LaneSettingsChoices ==
    LaneSettingsWith(TRUE, Sensitivities)
        \cup LaneSettingsWith(FALSE, {SmallSettings.laneDetectionSensitivity})

\* ------------------------------------------------------------ App

\* the settings the App starts with (laneDetectionSensitivity 1.1 and
\* bandBoundarySigma 2.5 in tenths)
DEFAULT_SETTINGS ==
    [autoDetectLanes             |-> TRUE,
     numLanes                    |-> 10,
     laneMargin                  |-> 10,
     laneDetectionSensitivity    |-> 11,
     roiTop                      |-> 0,
     roiBottom                   |-> 0,
     roiLeft                     |-> 0,
     roiRight                    |-> 0,
     invertImage                 |-> FALSE,
     backgroundSubtractionMethod |-> "rollingBall",
     backgroundRollingBallRadius |-> 150,
     backgroundSmoothing         |-> 30,
     minPeakProminence           |-> 2,
     smoothing                   |-> 5,
     minPeakDistance             |-> 5,
     noiseTolerance              |-> 3,
     bandBoundarySigma           |-> 25,
     showBackgroundProfile       |-> TRUE]

\* a null image source; an image source is held as the pixels it decodes to
NoImage == [width |-> 0, height |-> 0, data |-> <<>>]

\* 1000 times the luminance of the three bytes at byte offset idx
Luminance(data, idx) ==
    IF IsNaN(ByteAt(data, idx)) \/ IsNaN(ByteAt(data, idx + 1)) \/ IsNaN(ByteAt(data, idx + 2))
    THEN NaN
    ELSE 299 * ByteAt(data, idx) + 587 * ByteAt(data, idx + 1) + 114 * ByteAt(data, idx + 2)

RECURSIVE SampleBrightness(_, _, _, _, _, _, _, _)
\* <<totalBrightness, pixelCount>> of the sample grid of detectIdeallyInverted.
\* x2 and y2 are twice x and y, which are halves when the sample size is odd;
\* the byte offset (y * width + x) * 4 is then still whole
SampleBrightness(data, width, x2, y2, x2Start, x2End, y2End, acc) ==
    IF y2 >= y2End THEN acc
    ELSE IF x2 >= x2End
    THEN SampleBrightness(data, width, x2Start, y2 + 20, x2Start, x2End, y2End, acc)
    ELSE SampleBrightness(data, width, x2 + 20, y2, x2Start, x2End, y2End,
                          <<Add(acc[1], Luminance(data, (y2 * width + x2) * 2)), acc[2] + 1>>)

\* whether the average of st = <<totalBrightness, pixelCount>> is above 100
Bright(st) == st[2] > 0 /\ ~IsNaN(st[1]) /\ st[1] > 100000 * st[2]

\* detectIdeallyInverted: the middle fifth of the image is bright
DetectIdeallyInverted(data, width, height) ==
    Bright(SampleBrightness(data, width,
                            2 * (width \div 2) - (width * 2) \div 10,
                            2 * (height \div 2) - (height * 2) \div 10,
                            2 * (width \div 2) - (width * 2) \div 10,
                            2 * (width \div 2) + (width * 2) \div 10,
                            2 * (height \div 2) + (height * 2) \div 10,
                            <<0, 0>>))

\* the width of the images uploaded to the App
AppWidth == 10

\* a grey gel with a bright band at row 3 and a brighter stretch at rows
\* 7..11; its middle is bright enough for the automatic inversion
GreyGel ==
    ColumnsImage([c \in 1..AppWidth |->
                    Rows(<<110, 110, 120, 250, 120, 110, 110, 140, 140, 140, 140, 140,
                           110, 110>>)])

AppImages == { GreyGel }

\* a gel photographed dark on dark: its middle is too dark for the automatic
\* inversion
DarkGel ==
    ColumnsImage([c \in 1..AppWidth |->
                    Rows(<<10, 10, 20, 90, 20, 10, 10, 40, 40, 40, 40, 40, 10, 10>>)])

\* the images uploaded one after the other
ReuploadImages == { GreyGel, DarkGel }

\* the settings changes a user makes: <<key, value>> of updateSetting
SettingEdits == { <<"numLanes", 1>>, <<"roiTop", 100>> }

\* the rows of the densitogram a user clicks: one in the brighter stretch
ChartRows == { 8 }

\* defaultWidth of handleChartClick
DefaultWidth == 10

\* the most images uploaded, settings changed, processing images loading at
\* a time, and bands toggled in a run of the App
MaxUploads == 1

MaxEdits == 2

MaxLoads == 1

\* the most images uploaded when one image replaces another
MaxReuploads == 2

\* the most calls of toggleExcludeBand on a gel with overrides
MaxRepeatedToggles == 2

\* the lanes that carry overrides: the second's number begins with the first's
OverrideLanes == {1, 10}

\* the most processing images loading at a time when pipeline runs race
MaxRacingLoads == 2

MaxToggles == 1

\* {...record, [key]: value}
SetKey(record, key, value) ==
    [k \in DOMAIN record \cup {key} |-> IF k = key THEN value ELSE record[k]]

\* bandId.startsWith('L')
StartsWithL(bandId) == Len(bandId) >= 1 /\ bandId[1] = "L"

\* bandId.includes('-M')
IncludesDashM(bandId) ==
    \E i \in 1..(Len(bandId) - 1) : bandId[i] = "-" /\ bandId[i + 1] = "M"

\* the characters before the first '-': bandId.split('-')[0]
BeforeDash(bandId) ==
    IF \E i \in 1..Len(bandId) : bandId[i] = "-"
    THEN SubSeq(bandId, 1, (CHOOSE i \in 1..Len(bandId) :
                               /\ bandId[i] = "-"
                               /\ \A j \in 1..(i - 1) : bandId[j] # "-") - 1)
    ELSE bandId

\* chars.replace('L', ''): without its first 'L'
WithoutL(chars) ==
    IF \E i \in 1..Len(chars) : chars[i] = "L"
    THEN LET i == CHOOSE i \in 1..Len(chars) :
                     chars[i] = "L" /\ \A j \in 1..(i - 1) : chars[j] # "L"
         IN  SubSeq(chars, 1, i - 1) \o SubSeq(chars, i + 1, Len(chars))
    ELSE chars

IsDigit(ch) == \E d \in 0..9 : Digit(d) = ch

DigitValue(ch) == CHOOSE d \in 0..9 : Digit(d) = ch

RECURSIVE ParseDigits(_, _, _)
ParseDigits(chars, i, acc) ==
    IF i > Len(chars) \/ ~IsDigit(chars[i]) THEN acc
    ELSE ParseDigits(chars, i + 1, 10 * acc + DigitValue(chars[i]))

\* parseInt of a string without sign or blanks: its leading digits, or NaN
ParseInt(chars) ==
    IF chars = <<>> \/ ~IsDigit(chars[1]) THEN NaN ELSE ParseDigits(chars, 1, 0)

\* list.filter(e => e.id !== id)
WithoutBand(list, id) == SelectSeq(list, LAMBDA b : b.id # id)

\* list.filter(e => e !== id)
WithoutId(list, id) == SelectSeq(list, LAMBDA e : e # id)

\* ------------------------------------------------------------ state

VARIABLES
    originalImageData,   \* the image handed to processGelImage
    settings,            \* the GelSettings
    excludedBands,       \* ManualOverrides.excludedBands
    mainBandOverrides,   \* ManualOverrides.mainBands
    userBands,           \* ManualOverrides.userBands
    bandAdjustments,     \* ManualOverrides.bandAdjustments
    results,             \* the LaneData list returned
    pc,                  \* "start" before the call, "returned" after it, "repeated"
                         \* after the second call with the same arguments;
                         \* "detected" after a call of detectIdeallyInverted
    originalImageSrc,    \* App state: the uploaded image, or NoImage
    effectiveImageSrc,   \* App state: the image the pipeline runs on, or NoImage
    selectedLane,        \* App state: the selected lane's number, 0 for null
    selectedBandId,      \* App state: the selected band's id, NoId for null
    isProcessing,        \* App state
    addBandMode,         \* App state
    hasAutoInverted,     \* App state
    timer,               \* the pending 50 ms timeout of the processing effect
    loads,               \* the processing effect's images that are loading
    decodes,             \* the rotation effect's images that are loading
    now,                 \* Date.now()
    uploads,             \* how many images were uploaded
    edits,               \* how many times updateSetting was called
    toggles,             \* how many times toggleExcludeBand was called
    editsAtAdd,          \* the value of edits when the last manual band was added
    lastRun,             \* the render state the last processGelImage call was made with
    shouldInvert         \* what the last call of detectIdeallyInverted returned

coreVars == <<originalImageData, settings, excludedBands, mainBandOverrides, userBands,
              bandAdjustments, results, pc>>

appVars == <<originalImageSrc, effectiveImageSrc, selectedLane, selectedBandId,
             isProcessing, addBandMode, hasAutoInverted, timer, loads, decodes, now,
             uploads, edits, toggles, editsAtAdd, lastRun, shouldInvert>>

vars == <<coreVars, appVars>>

\* no timeout pending; no call made
NoTimer == [effectiveImageSrc |-> NoImage]

\* the App as it is constructed
AppConstructed ==
    /\ originalImageSrc = NoImage
    /\ effectiveImageSrc = NoImage
    /\ selectedLane = 0
    /\ selectedBandId = NoId
    /\ isProcessing = FALSE
    /\ addBandMode = FALSE
    /\ hasAutoInverted = FALSE
    /\ timer = NoTimer
    /\ loads = {}
    /\ decodes = {}
    /\ now = 1
    /\ uploads = 0
    /\ edits = 0
    /\ toggles = 0
    /\ editsAtAdd = 0
    /\ lastRun = NoTimer
    /\ shouldInvert = FALSE

\* the ManualOverrides value the caller builds from its state
ManualOverrides ==
    [excludedBands   |-> excludedBands,
     mainBands       |-> mainBandOverrides,
     userBands       |-> userBands,
     bandAdjustments |-> bandAdjustments]

\* a caller about to run the pipeline on one lane-aggregation input
Init ==
    /\ originalImageData \in GelImages
    /\ settings \in GelSettingsChoices
    /\ excludedBands \in ExcludedChoices
    /\ mainBandOverrides \in MainBandChoices
    /\ userBands \in UserBandsChoices
    /\ bandAdjustments \in AdjustmentChoices
    /\ results = <<>>
    /\ pc = "start"
    /\ AppConstructed

UserBandsSharedWithResult(ub, lanes) ==
    [laneIndex \in DOMAIN ub |->
        IF laneIndex \in 1..Len(lanes) THEN lanes[laneIndex].bands ELSE ub[laneIndex]]

\* the caller's userBands after a call that returned lanes: the call reads the
\* caller's lists and pushes copies of their bands onto the list of detected
\* bands, which it made itself and is the one it sorts and maps
UserBandsAfterCall(ub, lanes) == ub

\* the call of processGelImage
CallProcessGelImage ==
    /\ pc = "start"
    /\ results' = ProcessGelImage(originalImageData, settings, ManualOverrides)
    /\ pc' = "returned"
    /\ userBands' = UserBandsAfterCall(userBands, results')
    /\ UNCHANGED <<originalImageData, settings, excludedBands, mainBandOverrides,
                   bandAdjustments>>
    /\ UNCHANGED appVars

\* a second call of processGelImage, with the arguments of the first
CallProcessGelImageAgain ==
    /\ pc = "returned"
    /\ results' = ProcessGelImage(originalImageData, settings, ManualOverrides)
    /\ pc' = "repeated"
    /\ userBands' = UserBandsAfterCall(userBands, results')
    /\ UNCHANGED <<originalImageData, settings, excludedBands, mainBandOverrides,
                   bandAdjustments>>
    /\ UNCHANGED appVars

Next == CallProcessGelImage \/ CallProcessGelImageAgain

Spec == Init /\ [][Next]_vars

\* a caller about to run the pipeline on one lane-segmentation input, without
\* overrides
InitLanes ==
    /\ originalImageData \in WideImages
    /\ settings \in LaneSettingsChoices
    /\ excludedBands = <<>>
    /\ mainBandOverrides = <<>>
    /\ userBands = <<>>
    /\ bandAdjustments = <<>>
    /\ results = <<>>
    /\ pc = "start"
    /\ AppConstructed

SpecLanes == InitLanes /\ [][Next]_vars

\* the broad images, with lanes detected or on the grid, the whole image being
\* the region of interest
BroadSettingsChoices ==
    { st \in LaneSettingsChoices :
        st.roiLeft = 0 /\ st.roiRight = 0 /\ st.roiTop = 0 /\ st.roiBottom = 0 }

InitBroad ==
    /\ originalImageData \in BroadImages
    /\ settings \in BroadSettingsChoices
    /\ excludedBands = <<>>
    /\ mainBandOverrides = <<>>
    /\ userBands = <<>>
    /\ bandAdjustments = <<>>
    /\ results = <<>>
    /\ pc = "start"
    /\ AppConstructed

SpecBroad == InitBroad /\ [][Next]_vars

\* the longest side of the images of the inversion runs
MaxSide == 12

\* an opaque image of one grey
PlainImage(w, h, grey) == GreyImage([r \in 1..h |-> [c \in 1..w |-> grey]])

\* black, dark, bright and white images of every size up to MaxSide
PlainImages ==
    { PlainImage(w, h, grey) : w \in 1..MaxSide, h \in 1..MaxSide, grey \in {0, 30, 220, 255} }

\* a caller about to ask whether an image should be inverted
InitInvert ==
    /\ originalImageData \in PlainImages
    /\ settings = DEFAULT_SETTINGS
    /\ excludedBands = <<>>
    /\ mainBandOverrides = <<>>
    /\ userBands = <<>>
    /\ bandAdjustments = <<>>
    /\ results = <<>>
    /\ pc = "start"
    /\ AppConstructed

\* the call of detectIdeallyInverted
CallDetectIdeallyInverted ==
    /\ pc = "start"
    /\ shouldInvert' = DetectIdeallyInverted(originalImageData.data, originalImageData.width,
                                             originalImageData.height)
    /\ pc' = "detected"
    /\ UNCHANGED <<originalImageData, settings, excludedBands, mainBandOverrides, userBands,
                   bandAdjustments, results, originalImageSrc, effectiveImageSrc,
                   selectedLane, selectedBandId, isProcessing, addBandMode, hasAutoInverted,
                   timer, loads, decodes, now, uploads, edits, toggles, editsAtAdd, lastRun>>

NextInvert == CallDetectIdeallyInverted

SpecInvert == InitInvert /\ [][NextInvert]_vars

\* ------------------------------------------------------------ the App's handlers

RenderStateNoUserBands(src, st, ex, mb, ub, adj, hai, sl) ==
    [effectiveImageSrc |-> src,
     settings          |-> st,
     excludedBands     |-> ex,
     mainBandOverrides |-> mb,
     userBands         |-> <<>>,
     bandAdjustments   |-> adj,
     hasAutoInverted   |-> hai,
     selectedLane      |-> sl]

\* what a render's processing effect captures
RenderState(src, st, ex, mb, ub, adj, hai, sl) ==
    [effectiveImageSrc |-> src,
     settings          |-> st,
     excludedBands     |-> ex,
     mainBandOverrides |-> mb,
     userBands         |-> ub,
     bandAdjustments   |-> adj,
     hasAutoInverted   |-> hai,
     selectedLane      |-> sl]

\* the processing effect after a render in which one of its dependencies
\* changed: the last timeout is cleared, and with an image a new one is set
ProcessingEffect(src, st, ex, mb, ub, adj, hai, sl) ==
    IF src = NoImage
    THEN timer' = NoTimer /\ UNCHANGED isProcessing
    ELSE timer' = RenderState(src, st, ex, mb, ub, adj, hai, sl) /\ isProcessing' = TRUE

\* reader.onload of handleImageUpload, with resetOverrides, and the effects
\* of the render that follows
ReaderOnLoad(image) ==
    /\ uploads' = uploads + 1
    /\ originalImageSrc' = image
    /\ excludedBands' = <<>>
    /\ mainBandOverrides' = <<>>
    /\ userBands' = <<>>
    /\ bandAdjustments' = <<>>
    /\ selectedBandId' = NoId
    /\ settings' = [settings EXCEPT !.roiTop = 0, !.roiBottom = 0,
                                    !.roiLeft = 0, !.roiRight = 0]
    /\ hasAutoInverted' = FALSE
    /\ decodes' = IF image # originalImageSrc THEN decodes \cup {image} ELSE decodes
    /\ ProcessingEffect(effectiveImageSrc, settings', excludedBands', mainBandOverrides',
                        userBands', bandAdjustments', hasAutoInverted', selectedLane)
    /\ UNCHANGED <<originalImageData, results, pc, effectiveImageSrc, selectedLane,
                   addBandMode, loads, now, edits, toggles, editsAtAdd, lastRun,
                   shouldInvert>>

\* img.onload of the rotation effect (the rotation is 0), and the effects of
\* the render that follows
DecodeOnLoad(image) ==
    /\ image \in decodes
    /\ decodes' = decodes \ {image}
    /\ effectiveImageSrc' = image
    /\ IF image # effectiveImageSrc
       THEN ProcessingEffect(image, settings, excludedBands, mainBandOverrides, userBands,
                             bandAdjustments, hasAutoInverted, selectedLane)
       ELSE UNCHANGED <<timer, isProcessing>>
    /\ UNCHANGED <<coreVars, originalImageSrc, selectedLane, selectedBandId, addBandMode,
                   hasAutoInverted, loads, now, uploads, edits, toggles, editsAtAdd,
                   lastRun, shouldInvert>>

\* the 50 ms timeout of the processing effect fires: its image starts loading
TimerFires ==
    /\ timer # NoTimer
    /\ loads' = loads \cup {timer}
    /\ timer' = NoTimer
    /\ UNCHANGED <<coreVars, originalImageSrc, effectiveImageSrc, selectedLane,
                   selectedBandId, isProcessing, addBandMode, hasAutoInverted, decodes,
                   now, uploads, edits, toggles, editsAtAdd, lastRun,
                   shouldInvert>>

\* the overrides a render's processing effect hands to processGelImage
OverridesOf(c) ==
    [excludedBands   |-> c.excludedBands,
     mainBands       |-> c.mainBandOverrides,
     userBands       |-> c.userBands,
     bandAdjustments |-> c.bandAdjustments]

\* img.onload of the processing effect when the inversion it detects is not
\* the one set: updateSetting('invertImage', value) and no run
OnLoadInverts(c, value) ==
    /\ settings' = [settings EXCEPT !.invertImage = value]
    /\ hasAutoInverted' = TRUE
    /\ ProcessingEffect(effectiveImageSrc, settings', excludedBands, mainBandOverrides,
                        userBands, bandAdjustments, TRUE, selectedLane)
    /\ UNCHANGED <<results, selectedLane, lastRun>>

\* img.onload of the processing effect when it runs the pipeline
OnLoadProcesses(c, data) ==
    /\ results' = data
    /\ lastRun' = c
    /\ hasAutoInverted' = (hasAutoInverted \/ ~c.hasAutoInverted)
    /\ selectedLane' = IF Len(data) > 0 /\ c.selectedLane = 0 THEN 1 ELSE selectedLane
    /\ IF hasAutoInverted' # hasAutoInverted
       THEN ProcessingEffect(effectiveImageSrc, settings, excludedBands, mainBandOverrides,
                             userBands, bandAdjustments, TRUE, selectedLane')
       ELSE timer' = timer /\ isProcessing' = FALSE
    /\ UNCHANGED settings

\* img.onload of the processing effect, with what its render captured
ProcessOnLoad(c) ==
    /\ c \in loads
    /\ loads' = loads \ {c}
    /\ IF /\ ~c.hasAutoInverted
          /\ DetectIdeallyInverted(c.effectiveImageSrc.data, c.effectiveImageSrc.width,
                                   c.effectiveImageSrc.height) # c.settings.invertImage
       THEN OnLoadInverts(c, ~c.settings.invertImage)
       ELSE OnLoadProcesses(c, ProcessGelImage(c.effectiveImageSrc, c.settings,
                                               OverridesOf(c)))
    /\ shouldInvert' = IF c.hasAutoInverted THEN shouldInvert
                       ELSE DetectIdeallyInverted(c.effectiveImageSrc.data,
                                                  c.effectiveImageSrc.width,
                                                  c.effectiveImageSrc.height)
    /\ UNCHANGED <<originalImageData, excludedBands, mainBandOverrides, userBands,
                   bandAdjustments, pc, originalImageSrc, effectiveImageSrc,
                   selectedBandId, addBandMode, decodes, now, uploads, edits, toggles,
                   editsAtAdd>>

\* updateSetting(key, value), and the effects of the render that follows
UpdateSetting(key, value) ==
    /\ edits < MaxEdits
    /\ edits' = edits + 1
    /\ settings' = [settings EXCEPT ![key] = value]
    /\ ProcessingEffect(effectiveImageSrc, settings', excludedBands, mainBandOverrides,
                        userBands, bandAdjustments, hasAutoInverted, selectedLane)
    /\ UNCHANGED <<originalImageData, excludedBands, mainBandOverrides, userBands,
                   bandAdjustments, results, pc, originalImageSrc, effectiveImageSrc,
                   selectedLane, selectedBandId, addBandMode, hasAutoInverted, loads,
                   decodes, now, uploads, toggles, editsAtAdd, lastRun,
                   shouldInvert>>
\* ------------------------------------------------------------ properties

\* onLaneSelect(idx): a click on a lane of the results
OnLaneSelect(idx) ==
    /\ \E k \in 1..Len(results) : results[k].index = idx
    /\ selectedLane' = idx
    /\ selectedBandId' = NoId
    /\ UNCHANGED <<coreVars, originalImageSrc, effectiveImageSrc, isProcessing, addBandMode,
                   hasAutoInverted, timer, loads, decodes, now, uploads, edits, toggles,
                   editsAtAdd, lastRun,
                   shouldInvert>>

\* the Add Band button: setAddBandMode(!addBandMode)
ToggleAddBandMode ==
    /\ selectedLane # 0
    /\ now <= MaxManual
    /\ addBandMode' = ~addBandMode
    /\ UNCHANGED <<coreVars, originalImageSrc, effectiveImageSrc, selectedLane,
                   selectedBandId, isProcessing, hasAutoInverted, timer, loads, decodes,
                   now, uploads, edits, toggles, editsAtAdd, lastRun,
                   shouldInvert>>

\* the bands of lane number idx in the results: none when the lane is not there
BandsOfLane(idx) ==
    IF \E k \in 1..Len(results) : results[k].index = idx
    THEN results[CHOOSE k \in 1..Len(results) : results[k].index = idx].bands
    ELSE <<>>

\* the id of the first band whose window holds the row: NoId when there is none
ClickedBandId(bands, index) ==
    IF \E k \in 1..Len(bands) : index >= bands[k].yStart /\ index <= bands[k].yEnd
    THEN bands[CHOOSE k \in 1..Len(bands) :
                 /\ index >= bands[k].yStart /\ index <= bands[k].yEnd
                 /\ \A j \in 1..(k - 1) :
                       ~(index >= bands[j].yStart /\ index <= bands[j].yEnd)].id
    ELSE NoId

\* the band handleChartClick makes in add-band mode
NewBand(laneIndex, stamp, index) ==
    ManualBand(laneIndex, stamp, index, MaxI(0, index - DefaultWidth), index + DefaultWidth)

\* handleChartClick(index) in add-band mode, and the effects of the render
\* that follows
ClickAddsBand(index) ==
    /\ now <= MaxManual
    /\ userBands' = SetKey(userBands, selectedLane,
                           UserBandsForLane([userBands |-> userBands], selectedLane)
                               \o <<NewBand(selectedLane, now, index)>>)
    /\ addBandMode' = FALSE
    /\ selectedBandId' = ManualBandId(selectedLane, now)
    /\ now' = now + 1
    /\ editsAtAdd' = edits
    /\ ProcessingEffect(effectiveImageSrc, settings, excludedBands, mainBandOverrides,
                        userBands', bandAdjustments, hasAutoInverted, selectedLane)

\* handleChartClick(index) outside add-band mode: the band under the click is
\* selected
ClickSelectsBand(index) ==
    /\ selectedBandId' = ClickedBandId(BandsOfLane(selectedLane), index)
    /\ UNCHANGED <<userBands, addBandMode, now, editsAtAdd, timer, isProcessing>>

\* handleChartClick(index)
HandleChartClick(index) ==
    /\ selectedLane # 0
    /\ IF addBandMode THEN ClickAddsBand(index) ELSE ClickSelectsBand(index)
    /\ UNCHANGED <<originalImageData, settings, excludedBands, mainBandOverrides,
                   bandAdjustments, results, pc, originalImageSrc, effectiveImageSrc,
                   selectedLane, hasAutoInverted, loads, decodes, uploads, edits, toggles,
                   lastRun, shouldInvert>>

\* toggleExcludeBand of a manual band's id: after the confirmation the band
\* leaves its lane's user bands
DeleteManualBand(bandId, confirmed, laneIdx) ==
    /\ IF confirmed
       THEN /\ userBands' = SetKey(userBands, laneIdx,
                                   WithoutBand(UserBandsForLane([userBands |-> userBands],
                                                                laneIdx), bandId))
            /\ selectedBandId' = IF selectedBandId = bandId THEN NoId ELSE selectedBandId
            /\ ProcessingEffect(effectiveImageSrc, settings, excludedBands,
                                mainBandOverrides, userBands', bandAdjustments,
                                hasAutoInverted, selectedLane)
       ELSE UNCHANGED <<userBands, selectedBandId, timer, isProcessing>>
    /\ UNCHANGED excludedBands

\* the list with every occurrence of the id appended however it stands
ExcludedAppended(prev, bandId) == Append(prev, bandId)

\* the updater of setExcludedBands: the list without the id when it includes
\* it, and with the id at its end otherwise
ExcludedToggled(prev, bandId) ==
    IF Includes(prev, bandId) THEN WithoutId(prev, bandId) ELSE Append(prev, bandId)

\* toggleExcludeBand of another id: it enters or leaves excludedBands
ToggleExcluded(bandId) ==
    /\ excludedBands' = ExcludedToggled(excludedBands, bandId)
    /\ ProcessingEffect(effectiveImageSrc, settings, excludedBands', mainBandOverrides,
                        userBands, bandAdjustments, hasAutoInverted, selectedLane)
    /\ UNCHANGED <<userBands, selectedBandId>>

\* toggleExcludeBand(bandId); confirmed is the answer to window.confirm
ToggleExcludeBand(bandId, confirmed) ==
    /\ toggles' = toggles + 1
    /\ IF StartsWithL(bandId) /\ IncludesDashM(bandId)
       THEN DeleteManualBand(bandId, confirmed, ParseInt(WithoutL(BeforeDash(bandId))))
       ELSE ToggleExcluded(bandId)
    /\ UNCHANGED <<originalImageData, settings, mainBandOverrides, bandAdjustments, results,
                   pc, originalImageSrc, effectiveImageSrc, selectedLane, addBandMode,
                   hasAutoInverted, loads, decodes, now, uploads, edits, editsAtAdd,
                   lastRun, shouldInvert>>

\* the record without the key: delete record[key]
DeleteKey(record, key) == [k \in DOMAIN record \ {key} |-> record[k]]

\* id.startsWith(prefix)
StartsWith(id, prefix) == Len(id) >= Len(prefix) /\ SubSeq(id, 1, Len(prefix)) = prefix

\* the prefix without its dash
LanePrefixNoDash(laneIndex) == <<"L">> \o Digits(laneIndex)

\* `L${laneIndex}-`
LanePrefix(laneIndex) == <<"L">> \o Digits(laneIndex) \o <<"-">>

\* resetLaneOverrides(laneIndex), and the effects of the render that follows
ResetLaneOverrides(laneIndex) ==
    /\ mainBandOverrides' = DeleteKey(mainBandOverrides, laneIndex)
    /\ excludedBands' = SelectSeq(excludedBands,
                                  LAMBDA id : ~StartsWith(id, LanePrefix(laneIndex)))
    /\ userBands' = DeleteKey(userBands, laneIndex)
    /\ bandAdjustments' =
           [key \in { k \in DOMAIN bandAdjustments : ~StartsWith(k, LanePrefix(laneIndex)) }
              |-> bandAdjustments[key]]
    /\ ProcessingEffect(effectiveImageSrc, settings, excludedBands', mainBandOverrides',
                        userBands', bandAdjustments', hasAutoInverted, selectedLane)
    /\ UNCHANGED <<originalImageData, settings, results, pc, originalImageSrc,
                   effectiveImageSrc, selectedLane, selectedBandId, addBandMode,
                   hasAutoInverted, loads, decodes, now, uploads, edits, toggles,
                   editsAtAdd, lastRun, shouldInvert>>

\* the ids of the bands shown: a band can be clicked in the image, in the
\* results table and in the band editor
ShownBandIds ==
    UNION { { results[k].bands[j].id : j \in 1..Len(results[k].bands) } :
              k \in { i \in 1..Len(results) : results[i].index <= MaxLanes } }

\* one of the images is read, while fewer than limit have been
UploadOf(images, limit) == uploads < limit /\ \E image \in images : ReaderOnLoad(image)

\* a file is read
Upload == UploadOf(AppImages, MaxUploads)

\* an image of the rotation effect is decoded
Decode == \E image \in decodes : DecodeOnLoad(image)

\* an image of the processing effect is loaded
Load == \E c \in loads : ProcessOnLoad(c)

\* a timeout fires while fewer than limit images are loading
FireTimer(limit) == Cardinality(loads) < limit /\ TimerFires

\* a setting is changed in the side bar
Edit == \E e \in SettingEdits : UpdateSetting(e[1], e[2])

\* a lane is clicked
SelectLane == \E idx \in 1..MaxLanes : OnLaneSelect(idx)

\* the densitogram is clicked
ChartClick == \E index \in ChartRows : HandleChartClick(index)

\* one of the bands is clicked, or its delete button, while fewer than limit
\* have been
ToggleOf(ids, limit) ==
    toggles < limit /\ \E bandId \in ids, confirmed \in BOOLEAN :
                          ToggleExcludeBand(bandId, confirmed)

\* a band is clicked, or its delete button
BandClick == ToggleOf(ShownBandIds \cup ({selectedBandId} \ {NoId}), MaxToggles)

NextApp ==
    \/ Upload
    \/ Decode
    \/ FireTimer(MaxLoads)
    \/ Load
    \/ Edit
    \/ SelectLane
    \/ ToggleAddBandMode
    \/ ChartClick
    \/ BandClick

\* the App as it is constructed, with nothing uploaded
InitApp ==
    /\ originalImageData = NoImage
    /\ settings = DEFAULT_SETTINGS
    /\ excludedBands = <<>>
    /\ mainBandOverrides = <<>>
    /\ userBands = <<>>
    /\ bandAdjustments = <<>>
    /\ results = <<>>
    /\ pc = "start"
    /\ AppConstructed

SpecApp == InitApp /\ [][NextApp]_vars

\* the App with its settings changed while pipeline runs are under way
NextRace ==
    \/ Upload
    \/ Decode
    \/ FireTimer(MaxRacingLoads)
    \/ Load
    \/ Edit

SpecRace == InitApp /\ [][NextRace]_vars

\* the App with one image uploaded after another
NextUpload ==
    \/ UploadOf(ReuploadImages, MaxReuploads)
    \/ Decode
    \/ FireTimer(MaxLoads)
    \/ Load

SpecUpload == InitApp /\ [][NextUpload]_vars

\* a window of a band the user dragged
DraggedWindow == [yStart |-> 2, yEnd |-> 5]

\* the values of excludedBands on a gel of ten lanes
ExcludedOnTenLanes ==
    { <<>>,
      <<DetectedBandId(1, 1), DetectedBandId(10, 1)>>,
      <<DetectedBandId(10, 2), DetectedBandId(1, 2), DetectedBandId(2, 1)>> }

\* the values of mainBandOverrides
MainBandsOnTenLanes ==
    { <<>>,
      SetKey(SetKey(<<>>, 1, DetectedBandId(1, 1)), 10, DetectedBandId(10, 1)) }

\* the values of userBands
UserBandsOnTenLanes ==
    { <<>>,
      SetKey(SetKey(<<>>, 1, <<ManualBand(1, 1, 4, 2, 6), ManualBand(1, 2, 9, 7, 11)>>),
             10, <<ManualBand(10, 3, 4, 2, 6)>>) }

\* the values of bandAdjustments
AdjustmentsOnTenLanes ==
    { <<>>,
      SetKey(SetKey(<<>>, DetectedBandId(1, 1), DraggedWindow),
             DetectedBandId(10, 1), DraggedWindow) }

\* the ids of the bands that are clicked
ClickedIds ==
    { DetectedBandId(1, 1), DetectedBandId(10, 1), ManualBandId(1, 1), ManualBandId(10, 3) }

\* the App with a gel of ten lanes shown and overrides made on lanes 1 and 10
InitOverrides ==
    /\ originalImageData = NoImage
    /\ settings = [DEFAULT_SETTINGS EXCEPT !.numLanes = 10]
    /\ excludedBands \in ExcludedOnTenLanes
    /\ mainBandOverrides \in MainBandsOnTenLanes
    /\ userBands \in UserBandsOnTenLanes
    /\ bandAdjustments \in AdjustmentsOnTenLanes
    /\ results = <<>>
    /\ pc = "start"
    /\ originalImageSrc = GreyGel
    /\ effectiveImageSrc = GreyGel
    /\ selectedLane = 1
    /\ selectedBandId \in {NoId, ManualBandId(1, 1)}
    /\ isProcessing = FALSE
    /\ addBandMode = FALSE
    /\ hasAutoInverted = TRUE
    /\ timer = NoTimer
    /\ loads = {}
    /\ decodes = {}
    /\ now = 4
    /\ uploads = 1
    /\ edits = 0
    /\ toggles = 0
    /\ editsAtAdd = 0
    /\ lastRun = NoTimer
    /\ shouldInvert = FALSE

\* the overrides of a lane are reset
ResetLane == \E laneIndex \in OverrideLanes : ResetLaneOverrides(laneIndex)

NextOverrides ==
    \/ ToggleOf(ClickedIds, MaxRepeatedToggles)
    \/ ResetLane

SpecOverrides == InitOverrides /\ [][NextOverrides]_vars


\* the sum of the volumes of a sequence of bands or smears
RECURSIVE TotalVolume(_)
TotalVolume(items) ==
    IF items = <<>> THEN 0 ELSE Add(Head(items).volume, TotalVolume(Tail(items)))

\* a >= 0 on doubles
NonNegative(a) == ~IsNaN(a) /\ a >= 0

Returned == pc = "returned"

LaneNumbers == 1..Len(results)

ActiveBandsOf(lane) == SelectSeq(lane.bands, NotExcluded)

HasMainBand(lane) == lane.mainBand # NoBand

\* C1 (as claimed): every returned band, whether detected, manual or
\* boundary-adjusted, has 0 <= yStart <= yPeak <= yEnd < netProfile.length and
\* volume >= 0, whatever overrides the caller supplies.
C1_BandWindowInvariant ==
    \A l \in LaneNumbers : \A k \in 1..Len(results[l].bands) :
        /\ 0 <= results[l].bands[k].yStart
        /\ results[l].bands[k].yStart <= results[l].bands[k].yPeak
        /\ results[l].bands[k].yPeak <= results[l].bands[k].yEnd
        /\ results[l].bands[k].yEnd < Len(results[l].netProfile)
        /\ NonNegative(results[l].bands[k].volume)

\* C2: every lane's integrityScore lies in [0, 100]; it is
\* bandedVolume / (bandedVolume + degradationVolume) * 100 when the lane has a
\* main band and that sum is positive, and 0 otherwise.
C2_IntegrityScore ==
    \A l \in LaneNumbers :
        /\ results[l].integrityScore >= 0
        /\ results[l].integrityScore <= 100 * 100
        /\ IF /\ HasMainBand(results[l])
              /\ Gt(Add(results[l].mainBandVolume, results[l].degradationVolume), 0)
           THEN results[l].integrityScore =
                    (results[l].mainBandVolume * 100 * 100)
                        \div (results[l].mainBandVolume + results[l].degradationVolume)
           ELSE results[l].integrityScore = 0

\* C2 witness: a lane with a main band, bands or smears on both sides of it,
\* and a score strictly between 0 and 100
C2_Witness ==
    \E l \in LaneNumbers :
        /\ HasMainBand(results[l])
        /\ results[l].mainBandVolume > 0
        /\ results[l].degradationVolume > 0
        /\ results[l].integrityScore > 0
        /\ results[l].integrityScore < 100 * 100

\* the forced id resolves to a non-excluded band of the lane
ForcedResolves(lane) ==
    /\ ForcedMainId(ManualOverrides, lane.index) # NoId
    /\ \E k \in 1..Len(lane.bands) :
          /\ ~lane.bands[k].isExcluded
          /\ lane.bands[k].id = ForcedMainId(ManualOverrides, lane.index)

\* C3: the main band of a lane is the band whose id the caller forced, when
\* that id is the id of a non-excluded band of the lane; otherwise it is a
\* non-excluded band of maximum volume; and a lane without a non-excluded band
\* has no main band.
C3_MainBandSelection ==
    \A l \in LaneNumbers :
        IF ForcedResolves(results[l])
        THEN /\ HasMainBand(results[l])
             /\ results[l].mainBand.id = ForcedMainId(ManualOverrides, results[l].index)
             /\ \A k \in 1..Len(results[l].bands) :
                   results[l].bands[k].isMainBand
                       <=> results[l].bands[k].id = results[l].mainBand.id
        ELSE IF ActiveBandsOf(results[l]) # <<>>
        THEN /\ \E k \in 1..Len(results[l].bands) :
                   /\ ~results[l].bands[k].isExcluded
                   /\ results[l].bands[k].isMainBand
                   /\ results[l].bands[k].id = results[l].mainBand.id
                   /\ results[l].bands[k].volume = results[l].mainBand.volume
             /\ \A k \in 1..Len(results[l].bands) :
                   ~results[l].bands[k].isExcluded
                       => ~Gt(results[l].bands[k].volume, results[l].mainBand.volume)
        ELSE /\ ~HasMainBand(results[l])
             /\ \A k \in 1..Len(results[l].bands) : ~results[l].bands[k].isMainBand

\* C3 witness: the forced band is the main band although another non-excluded
\* band of the lane has more volume
C3_Witness ==
    \E l \in LaneNumbers :
        /\ ForcedResolves(results[l])
        /\ \E k \in 1..Len(results[l].bands) :
              /\ ~results[l].bands[k].isExcluded
              /\ results[l].bands[k].volume > results[l].mainBand.volume

\* the bands of the lane that are not excluded and lie at or before (after)
\* the main band's peak
BandsBefore(lane) ==
    LET Before(b) == ~b.isExcluded /\ b.yPeak <= lane.mainBand.yPeak
    IN  SelectSeq(lane.bands, Before)

BandsAfter(lane) ==
    LET After(b) == ~b.isExcluded /\ b.yPeak > lane.mainBand.yPeak
    IN  SelectSeq(lane.bands, After)

\* the smears whose centre lies at or before (after) the main band's peak
SmearsBefore(lane) ==
    LET Before(sm) == sm.yStart + sm.yEnd <= 2 * lane.mainBand.yPeak
    IN  SelectSeq(lane.smears, Before)

SmearsAfter(lane) ==
    LET After(sm) == sm.yStart + sm.yEnd > 2 * lane.mainBand.yPeak
    IN  SelectSeq(lane.smears, After)

\* C4: in a lane with a main band, mainBandVolume is the sum of the volumes of
\* the non-excluded bands and of the smears placed at or before the main band's
\* yPeak (a smear is placed by its centre), and degradationVolume the sum of
\* those placed after it; in a lane without a main band degradationVolume is
\* totalLaneVolume and mainBandVolume is 0.
C4_VolumeRollup ==
    \A l \in LaneNumbers :
        IF HasMainBand(results[l])
        THEN /\ results[l].mainBandVolume =
                    Add(TotalVolume(BandsBefore(results[l])),
                        TotalVolume(SmearsBefore(results[l])))
             /\ results[l].degradationVolume =
                    Add(TotalVolume(BandsAfter(results[l])),
                        TotalVolume(SmearsAfter(results[l])))
        ELSE /\ results[l].degradationVolume = results[l].totalLaneVolume
             /\ results[l].mainBandVolume = 0

\* C4 witness: a lane with a main band and a smear that starts before the
\* main band's peak and is centred after it
C4_Witness ==
    \E l \in LaneNumbers :
        /\ HasMainBand(results[l])
        /\ \E k \in 1..Len(results[l].smears) :
              /\ results[l].smears[k].yStart <= results[l].mainBand.yPeak
              /\ results[l].smears[k].yStart + results[l].smears[k].yEnd
                    > 2 * results[l].mainBand.yPeak
              /\ results[l].smears[k].volume > 0

\* C5 (as claimed): a band whose id is in excludedBands stays in the lane's
\* bands with isExcluded = true, and its signal is in neither mainBandVolume
\* nor degradationVolume: the two add up to the volumes of the non-excluded
\* bands and the smears alone, also when the band was the lane's only band.
C5_ExcludedContributesNothing ==
    \A l \in LaneNumbers :
        /\ \A k \in 1..Len(results[l].bands) :
              results[l].bands[k].isExcluded
                  <=> Includes(excludedBands, results[l].bands[k].id)
        /\ (\E k \in 1..Len(results[l].bands) : results[l].bands[k].isExcluded)
              => Add(results[l].mainBandVolume, results[l].degradationVolume)
                     = Add(TotalVolume(ActiveBandsOf(results[l])),
                           TotalVolume(results[l].smears))

\* C6: every band of userBands for a lane is among the lane's returned bands,
\* with isManual = true, its window clamped to the profile, and a volume that
\* is the direct sum of netProfile over the returned window.
C6_ManualBandVolume ==
    \A l \in LaneNumbers :
        \A u \in 1..Len(UserBandsForLane(ManualOverrides, results[l].index)) :
            \E k \in 1..Len(results[l].bands) :
                /\ results[l].bands[k].id
                      = UserBandsForLane(ManualOverrides, results[l].index)[u].id
                /\ results[l].bands[k].yPeak
                      = UserBandsForLane(ManualOverrides, results[l].index)[u].yPeak
                /\ results[l].bands[k].isManual
                /\ results[l].bands[k].yStart
                      = MaxI(0, UserBandsForLane(ManualOverrides, results[l].index)[u].yStart)
                /\ results[l].bands[k].yEnd
                      = MinI(Len(results[l].netProfile) - 1,
                             UserBandsForLane(ManualOverrides, results[l].index)[u].yEnd)
                /\ results[l].bands[k].volume
                      = SumSeq(results[l].netProfile, results[l].bands[k].yStart,
                               results[l].bands[k].yEnd)

\* C6 witness: a returned manual band whose window was clamped to the end of
\* the profile and whose volume is positive
C6_Witness ==
    \E l \in LaneNumbers :
        \E u \in 1..Len(UserBandsForLane(ManualOverrides, results[l].index)) :
            \E k \in 1..Len(results[l].bands) :
                /\ results[l].bands[k].id
                      = UserBandsForLane(ManualOverrides, results[l].index)[u].id
                /\ results[l].bands[k].isManual
                /\ UserBandsForLane(ManualOverrides, results[l].index)[u].yEnd
                      > results[l].bands[k].yEnd
                /\ results[l].bands[k].volume > 0
\* the user band ub is among the bands returned for its lane
ReturnedIn(lanes, laneIndex, ub) ==
    \E j \in 1..Len(lanes) :
        /\ lanes[j].index = laneIndex
        /\ \E k \in 1..Len(lanes[j].bands) :
              /\ lanes[j].bands[k].id = ub.id
              /\ lanes[j].bands[k].yPeak = ub.yPeak
              /\ lanes[j].bands[k].isManual

\* the run returned the lane
LaneReturned(lanes, laneIndex) == \E j \in 1..Len(lanes) : lanes[j].index = laneIndex

\* a step of updateSetting leaves the user bands as they are
UpdateSettingKeepsUserBands ==
    [][(\E e \in SettingEdits : UpdateSetting(e[1], e[2])) => userBands' = userBands]_vars

\* the run that is scheduled is handed the user bands as they are now
PassedToPendingRun == timer # NoTimer => timer.userBands = userBands

\* every user band the last run was handed is among the bands it returned
ReturnedByLastRun ==
    lastRun # NoTimer =>
        \A laneIndex \in DOMAIN lastRun.userBands :
            \A k \in 1..Len(lastRun.userBands[laneIndex]) :
                ReturnedIn(results, laneIndex, lastRun.userBands[laneIndex][k])

\* every user band the last run was handed is among the bands it returned, if
\* it returned the band's lane
ReturnedWithItsLane ==
    lastRun # NoTimer =>
        \A laneIndex \in DOMAIN lastRun.userBands :
            \A k \in 1..Len(lastRun.userBands[laneIndex]) :
                LaneReturned(results, laneIndex) =>
                    ReturnedIn(results, laneIndex, lastRun.userBands[laneIndex][k])

\* C7 (as claimed): a manual band's userBands entry is unchanged by
\* updateSetting, and the band is passed to and returned by every later
\* pipeline run until it is deleted.
C7_ReturnedByEveryRun ==
    UpdateSettingKeepsUserBands /\ [](PassedToPendingRun /\ ReturnedByLastRun)

\* C7 (amended): a manual band's userBands entry is unchanged by
\* updateSetting, the band is passed to every pipeline run scheduled after it
\* was added, and such a run returns it whenever it returns the band's lane.
C7_ManualBandPersists ==
    UpdateSettingKeepsUserBands /\ [](PassedToPendingRun /\ ReturnedWithItsLane)

\* C7 witness: a setting was changed after a manual band was added, and the
\* run made with the changed settings returned the band in a lane with signal
C7_Witness ==
    /\ lastRun # NoTimer
    /\ timer = NoTimer
    /\ loads = {}
    /\ edits > editsAtAdd
    /\ lastRun.settings = settings
    /\ lastRun.userBands = userBands
    /\ \E laneIndex \in DOMAIN userBands :
          /\ Len(userBands[laneIndex]) > 0
          /\ ReturnedIn(results, laneIndex, userBands[laneIndex][1])
          /\ \E j \in 1..Len(results) :
                /\ results[j].index = laneIndex
                /\ \E k \in 1..Len(results[j].bands) :
                      /\ results[j].bands[k].id = userBands[laneIndex][1].id
                      /\ ~IsNaN(results[j].bands[k].volume)
                      /\ results[j].bands[k].volume > 0

\* the crop rectangle of the call, recomputed from the arguments
CropX == (settings.roiLeft * originalImageData.width) \div 100

CropY == (settings.roiTop * originalImageData.height) \div 100

CropW == ((100 - settings.roiRight - settings.roiLeft) * originalImageData.width) \div 100

CropH == ((100 - settings.roiBottom - settings.roiTop) * originalImageData.height) \div 100

\* the region of interest has no pixel: its percentages leave nothing, or what
\* they leave is less than one pixel wide or high
RoiCollapsed ==
    \/ settings.roiLeft + settings.roiRight >= 100
    \/ settings.roiTop + settings.roiBottom >= 100
    \/ CropW = 0
    \/ CropH = 0

\* C8: when the region of interest collapses to zero or negative width or
\* height, processGelImage returns an empty lane list.
C8_CollapsedRoiReturnsNothing == (Returned /\ RoiCollapsed) => results = <<>>

\* C8 witness: a call returned for a region of interest whose percentages are
\* below 100 and whose floored width is 0
C8_Witness ==
    /\ Returned
    /\ settings.roiLeft + settings.roiRight < 100
    /\ settings.roiTop + settings.roiBottom < 100
    /\ CropW = 0
    /\ results = <<>>

\* automatic detection is off, or finds no lane in the cropped image
GridFallback ==
    \/ ~settings.autoDetectLanes
    \/ DetectLanes(CropW, CropH,
                   CropData(originalImageData.data, originalImageData.width,
                            CropX, CropY, CropW, CropH),
                   settings) = <<>>

\* the rectangle's left gap in its grid cell, times numLanes
LeftGap(rect, k) == settings.numLanes * (rect.x - CropX) - (k - 1) * CropW

\* the rectangle's right gap in its grid cell, times numLanes
RightGap(rect, k) == k * CropW - settings.numLanes * (rect.x - CropX + rect.width)

\* C9: when autoDetectLanes is false, or automatic detection yields no lane,
\* the cropped width is cut into exactly numLanes rectangles of equal width,
\* each laneMargin percent narrower than its grid cell and centred in it (to
\* the rounding of x and width to whole pixels).
C9_UniformGrid ==
    (Returned /\ ~RoiCollapsed /\ GridFallback) =>
        /\ Len(results) = settings.numLanes
        /\ \A k \in 1..Len(results) :
              /\ results[k].rect.width = results[1].rect.width
              /\ 100 * settings.numLanes * results[k].rect.width
                    <= (100 - settings.laneMargin) * CropW
              /\ 100 * settings.numLanes * (results[k].rect.width + 1)
                    > (100 - settings.laneMargin) * CropW
              /\ LeftGap(results[k].rect, k) > 0 - settings.numLanes
              /\ RightGap(results[k].rect, k) >= 0
              /\ AbsI(RightGap(results[k].rect, k) - LeftGap(results[k].rect, k))
                    < 3 * settings.numLanes

\* C9 witness: detection was on and found nothing, and the grid has several
\* lanes with a margin
C9_Witness ==
    /\ Returned
    /\ ~RoiCollapsed
    /\ settings.autoDetectLanes
    /\ GridFallback
    /\ settings.numLanes >= 2
    /\ settings.laneMargin = 50
    /\ Len(results) = settings.numLanes
    /\ results[2].rect.x > CropX + results[1].rect.x + results[1].rect.width

\* C10 (as claimed): a call with a pixel buffer whose length is not
\* width * height * 4 ends in an InvalidImageError.
C10_MalformedImageRejected ==
    (pc # "start" /\ ~WellFormed(originalImageData)) => pc = "InvalidImageError"

\* the settings are within the documented ranges, and the region of interest
\* is not empty
DocumentedRanges ==
    /\ settings.numLanes >= 1
    /\ settings.laneMargin >= 0
    /\ settings.laneMargin <= 50
    /\ ~RoiCollapsed

\* no sample of the profile is NaN, which is what 0 / 0 gives
Defined(profile) == \A j \in 1..Len(profile) : ~IsNaN(profile[j])

\* C11 (as claimed): with numLanes >= 1, laneMargin in 0..50 and a region of
\* interest that is not empty, every division made for a lane has a divisor
\* that is not 0 or is guarded so that its result is 0: the row mean over the
\* lane's width, the relative mobility of a band and the integrity score.
C11_DivisionsGuarded ==
    (pc # "start" /\ DocumentedRanges) =>
        \A l \in LaneNumbers :
            /\ results[l].rect.width = 0 =>
                  \A j \in 1..Len(results[l].rawProfile) : results[l].rawProfile[j] = 0
            /\ Defined(results[l].rawProfile)
            /\ Defined(results[l].netProfile)
            /\ ~IsNaN(results[l].integrityScore)
            /\ \A k \in 1..Len(results[l].bands) :
                  ~IsNaN(results[l].bands[k].relativeMobility)

\* the arguments of the call: the image, the settings and the overrides
Arguments ==
    <<originalImageData, settings, excludedBands, mainBandOverrides, userBands,
      bandAdjustments>>

C13_NoBackgroundSubtraction ==
    (pc # "start" /\ settings.backgroundSubtractionMethod = "none") =>
        \A l \in LaneNumbers :
            /\ \A j \in 1..Len(results[l].backgroundProfile) :
                  results[l].backgroundProfile[j] = 0
            /\ \A j \in 1..Len(results[l].netProfile) :
                  results[l].netProfile[j] = Max0(results[l].rawProfile[j])

\* the cropped copy of the pixels that the call works on
Cropped ==
    CropData(originalImageData.data, originalImageData.width, CropX, CropY, CropW, CropH)

\* the smoothed raw profile of a returned lane when the intensity of a pixel is
\* 255 minus its luminance if invert is set, and its luminance if not
SmoothedRawWith(lane, invert) ==
    GaussianSmooth(
        Tuple([r \in 1..lane.rect.height |->
                 RowMean(RowSum(Cropped, CropW, [x |-> lane.rect.x - CropX],
                                lane.rect.y - CropY + r - 1, 0, lane.rect.width - 1,
                                invert),
                         lane.rect.width)]),
        settings.smoothing)

\* C14 (as claimed): the intensity of a pixel that feeds a lane's raw profile
\* is 255 minus the luminance exactly when settings.invertImage is true, and
\* the plain luminance when it is false.
C14_InvertedWhenSet ==
    pc # "start" =>
        \A l \in LaneNumbers :
            results[l].rawProfile = SmoothedRawWith(results[l], settings.invertImage)

\* the grey of a plain image, which is the luminance of each of its pixels and
\* so the mean luminance of any of them
PlainGrey(image) == image.data[1]

\* C15 (as claimed): detectIdeallyInverted returns true exactly when the mean
\* luminance of the pixels it samples in the middle of the image is above 100,
\* whatever the width and height: false for a uniformly dark opaque image and
\* true for a uniformly bright one.
C15_BrightExactlyAbove100 ==
    pc = "detected" => (shouldInvert <=> PlainGrey(originalImageData) > 100)

\* no pipeline run is pending: no timeout is set and no image is loading
Settled == timer = NoTimer /\ loads = {} /\ decodes = {}

\* the run whose results are stored was made with the image, the settings and
\* the overrides as they are now
LastRunIsLatest ==
    /\ lastRun.effectiveImageSrc = effectiveImageSrc
    /\ lastRun.settings = settings
    /\ lastRun.excludedBands = excludedBands
    /\ lastRun.mainBandOverrides = mainBandOverrides
    /\ lastRun.userBands = userBands
    /\ lastRun.bandAdjustments = bandAdjustments

\* C16 (as claimed): when settings or overrides change while an earlier
\* pipeline run is pending, the results finally stored are those of the latest
\* settings and overrides: a superseded run's result never overwrites the
\* result of a newer run.
C16_LatestRunWins == (Settled /\ lastRun # NoTimer) => LastRunIsLatest

\* the id is prefix followed by one or more digits
PrefixThenDigits(id, prefix) ==
    /\ Len(id) > Len(prefix)
    /\ SubSeq(id, 1, Len(prefix)) = prefix
    /\ \A i \in (Len(prefix) + 1)..Len(id) : IsDigit(id[i])

\* C17 (as claimed): within each lane's returned bands all ids are distinct,
\* whatever manual overrides the caller supplies; a detected band's id is
\* L<lane>-B<k> and the id of a manual band made by the App is
\* L<lane>-M<timestamp>.
C17_DistinctIds ==
    \A l \in LaneNumbers :
        /\ \A j, k \in 1..Len(results[l].bands) :
              j # k => results[l].bands[j].id # results[l].bands[k].id
        /\ \A k \in 1..Len(results[l].bands) :
              PrefixThenDigits(results[l].bands[k].id,
                               <<"L">> \o Digits(results[l].index)
                                   \o <<"-", IF results[l].bands[k].isManual THEN "M" ELSE "B">>)

\* C18: the returned lanes carry the indices 1..n in the order returned, which
\* is the order of their rectangles from left to right; every rectangle has
\* whole x, y, width and height and spans the cropped height (y is the top of
\* the crop, height its height); and rawProfile, backgroundProfile and
\* netProfile all have that height as length.
C18_LanesInOrderFullHeight ==
    pc # "start" =>
        \A l \in LaneNumbers :
            /\ results[l].index = l
            /\ l > 1 => results[l - 1].rect.x <= results[l].rect.x
            /\ results[l].rect.x \in Int
            /\ results[l].rect.y \in Int
            /\ results[l].rect.width \in Int
            /\ results[l].rect.height \in Int
            /\ results[l].rect.y = CropY
            /\ results[l].rect.height = CropH
            /\ Len(results[l].rawProfile) = CropH
            /\ Len(results[l].backgroundProfile) = CropH
            /\ Len(results[l].netProfile) = CropH

\* C18 witness: two lanes were detected in a region of interest that starts
\* below the top and right of the left edge of the image
C18_Witness ==
    /\ Returned
    /\ settings.autoDetectLanes
    /\ ~GridFallback
    /\ CropY > 0
    /\ CropX > 0
    /\ Len(results) = 2
    /\ results[1].rect.x + results[1].rect.width <= results[2].rect.x
    /\ results[1].rect.x >= CropX
    /\ results[1].rect.width > 0

\* the bands as findBandsAndSmears detects them on the lane's net profile,
\* each with the volume the weighted apportionment gave it
DetectedIn(lane) == FindBandsAndSmears(lane.netProfile, lane.index, settings).bands

\* C19 (as claimed): a detected band without an entry in
\* manualOverrides.bandAdjustments is returned with the volume that the
\* weighted apportionment of the net profile among the fitted Gaussians gave
\* it; only adjusted bands and manual bands have their volume recomputed as
\* the direct sum of the profile over their window.
C19_ApportionedVolumeKept ==
    \A l \in LaneNumbers :
        \A k \in 1..Len(results[l].bands) :
            (~results[l].bands[k].isManual
                /\ results[l].bands[k].id \notin DOMAIN bandAdjustments) =>
                \E d \in 1..Len(DetectedIn(results[l])) :
                    /\ DetectedIn(results[l])[d].id = results[l].bands[k].id
                    /\ DetectedIn(results[l])[d].volume = results[l].bands[k].volume

\* the prominence of the sample at i: its value minus the higher of the two
\* minima found within 50 samples to its left and to its right
Prominence(profile, i) ==
    At(profile, i)
        - MaxI(MinOver(profile, MaxI(0, i - 50), i, At(profile, i)),
               MinOver(profile, i, MinI(Len(profile) - 1, i + 50), At(profile, i)))

\* the index i is a peak candidate as the claim describes one
ProminentPeak(profile, i, st) ==
    /\ i >= 2
    /\ i < Len(profile) - 2
    /\ \A d \in {-2, -1, 1, 2} : Gt(At(profile, i), At(profile, i + d))
    /\ At(profile, i) > st.noiseTolerance * Q
    /\ Prominence(profile, i) * 10 > st.minPeakProminence * 255

\* C20 (as claimed): an index of the net profile becomes a peak candidate only
\* if it is strictly greater than its 2 neighbours on each side, its value
\* exceeds noiseTolerance, and its prominence exceeds minPeakProminence percent
\* of 255; a local maximum of large value and small prominence is no
\* candidate.
C20_CandidatesAreProminent ==
    \A l \in LaneNumbers :
        \A k \in 1..Len(PeakCandidates(results[l].netProfile, settings)) :
            ProminentPeak(results[l].netProfile,
                          PeakCandidates(results[l].netProfile, settings)[k], settings)

\* the peaks accepted in the lane's net profile, and the candidates they were
\* taken from
AcceptedIn(lane) == FilterPeaks(lane.netProfile, settings)

CandidatesIn(lane) == PeakCandidates(lane.netProfile, settings)

\* the elements of a sequence
Elements(s) == { s[k] : k \in 1..Len(s) }

\* C21 (as claimed): after distance filtering with minPeakDistance > 0, every
\* two accepted peaks are farther apart than minPeakDistance, a candidate is
\* rejected only because an accepted peak at least as tall lies within
\* minPeakDistance of it, and the accepted peaks, hence the detected bands,
\* are in ascending position order.
C21_AcceptedPeaksFarApart ==
    settings.minPeakDistance > 0 =>
        \A l \in LaneNumbers :
            /\ \A j, k \in 1..Len(AcceptedIn(results[l])) :
                  j < k => AcceptedIn(results[l])[k] - AcceptedIn(results[l])[j]
                              > settings.minPeakDistance
            /\ \A c \in Elements(CandidatesIn(results[l])) \ Elements(AcceptedIn(results[l])) :
                  \E a \in Elements(AcceptedIn(results[l])) :
                      /\ AbsI(c - a) <= settings.minPeakDistance
                      /\ ~Lt(At(results[l].netProfile, a), At(results[l].netProfile, c))
            /\ \A k \in 1..Len(DetectedIn(results[l])) :
                  /\ Len(DetectedIn(results[l])) = Len(AcceptedIn(results[l]))
                  /\ DetectedIn(results[l])[k].yPeak = AcceptedIn(results[l])[k]

\* the residue that findBandsAndSmears scans in the lane's net profile
ResidueIn(lane) ==
    Residue(lane.netProfile,
            ModelSum(lane.netProfile,
                     Gaussians(lane.netProfile, AcceptedIn(lane)), settings))

\* a..b is a maximal contiguous run of residue samples above the noise
\* threshold
MaximalRun(residue, a, b) ==
    /\ \A x \in a..b : Gt(At(residue, x), settings.noiseTolerance * Q)
    /\ a = 0 \/ ~Gt(At(residue, a - 1), settings.noiseTolerance * Q)
    /\ b = Len(residue) - 1 \/ ~Gt(At(residue, b + 1), settings.noiseTolerance * Q)

\* C22 (as claimed): every maximal contiguous run of residual samples above
\* the noise threshold whose width exceeds 2 * minPeakDistance and which passes
\* the significance test yields a SmearRegion spanning exactly that run,
\* wherever the run lies in the profile, up to the last sample included; so a
\* lane with one strong band followed by a broad continuous elevation has a
\* smear of positive volume.
C22_EveryRunYieldsSmear ==
    \A l \in LaneNumbers :
        \A a, b \in 0..(Len(results[l].netProfile) - 1) :
            (/\ a <= b
             /\ MaximalRun(ResidueIn(results[l]), a, b)
             /\ KeepSmear(a, b, SumSeq(ResidueIn(results[l]), a, b), settings))
                => \E k \in 1..Len(results[l].smears) :
                      /\ results[l].smears[k].yStart = a
                      /\ results[l].smears[k].yEnd = b
                      /\ results[l].smears[k].volume > 0

\* C23: the smear regions of a lane are pairwise disjoint and listed in
\* ascending position; each has 0 <= yStart <= yEnd < profile length and a
\* volume >= 0 that is the sum of the residual over yStart..yEnd; and their
\* ids are L<lane>-S1, L<lane>-S2, ... in that order.
C23_SmearsDisjointInOrder ==
    \A l \in LaneNumbers :
        /\ \A k \in 1..Len(results[l].smears) :
              /\ 0 <= results[l].smears[k].yStart
              /\ results[l].smears[k].yStart <= results[l].smears[k].yEnd
              /\ results[l].smears[k].yEnd < Len(results[l].netProfile)
              /\ NonNegative(results[l].smears[k].volume)
              /\ results[l].smears[k].volume =
                    SumSeq(ResidueIn(results[l]),
                           results[l].smears[k].yStart, results[l].smears[k].yEnd)
              /\ results[l].smears[k].id = <<"L">> \o Digits(results[l].index)
                                              \o <<"-", "S">> \o Digits(k)
        /\ \A j, k \in 1..Len(results[l].smears) :
              j < k => results[l].smears[j].yEnd < results[l].smears[k].yStart

\* C23 witness: a lane returned with two smear regions
C23_Witness ==
    \E l \in LaneNumbers :
        /\ Len(results[l].smears) >= 2
        /\ results[l].smears[2].volume > 0

\* the lanes detectLanes finds in the cropped image at the given sensitivity
DetectedLanesAt(sensitivity) ==
    DetectLanes(CropW, CropH, Cropped,
                [settings EXCEPT !.laneDetectionSensitivity = sensitivity])

\* C24 (as claimed): in automatic lane detection a higher
\* laneDetectionSensitivity lowers the detection threshold: for the same image
\* and otherwise equal settings it never yields fewer detected lanes than a
\* lower one.
C24_MoreSensitiveMoreLanes ==
    (pc = "returned" /\ settings.autoDetectLanes /\ ~RoiCollapsed
        /\ WellFormed(originalImageData)) =>
        \A lower \in Sensitivities :
            lower < settings.laneDetectionSensitivity =>
                Len(DetectedLanesAt(lower))
                    <= Len(DetectedLanesAt(settings.laneDetectionSensitivity))

\* the smoothed column profile of the cropped image
ColumnProfile == GaussianSmooth(VarProfile(CropW, CropH, Cropped, settings), 30)

\* of any two of the peaks that lie closer together than width / 30, the
\* taller is among the centres and the other is not
TallerOfCloseKept(profile, peaks, centers) ==
    \A i, j \in peaks :
        (i # j /\ AbsI(i - j) * 30 < Len(profile) /\ At(profile, j) > At(profile, i))
            => (j \in centers /\ i \notin centers)

TallerKeptIn(profile, maxVal) ==
    TallerOfCloseKept(profile, Elements(LanePeakColumns(profile, maxVal, 10, settings)),
                      Elements(LaneCenters(profile, maxVal, 10, <<>>, settings)))

\* C25 (as claimed): in automatic lane detection, when two local maxima of
\* the column profile above the threshold lie closer together than the
\* minimum separation, width / 30, the taller of the two is kept as the lane
\* centre and the other is discarded.
C25_TallerCentreKept ==
    (pc = "returned" /\ settings.autoDetectLanes) =>
        TallerKeptIn(ColumnProfile, SeqMax(ColumnProfile))

\* C26: the lane rectangles returned for one image, detected or on the
\* uniform grid, are ordered left to right, no two of them overlap
\* horizontally, and each lies inside the region of interest:
\* cropX <= rect.x and rect.x + rect.width <= cropX + cropW.
C26_RectsDisjointInsideRoi ==
    \A l \in LaneNumbers :
        /\ CropX <= results[l].rect.x
        /\ results[l].rect.x + results[l].rect.width <= CropX + CropW
        /\ results[l].rect.width >= 0
        /\ l > 1 => results[l - 1].rect.x + results[l - 1].rect.width <= results[l].rect.x

\* C26 witness: two lanes were detected, with a margin, in a region of
\* interest that starts right of the image's left edge; there is a gap between
\* them and the second ends before the region does
C26_Witness ==
    /\ Returned
    /\ settings.autoDetectLanes
    /\ ~GridFallback
    /\ settings.laneMargin > 0
    /\ CropX > 0
    /\ Len(results) = 2
    /\ results[1].rect.width > 0
    /\ results[1].rect.x + results[1].rect.width < results[2].rect.x
    /\ results[2].rect.x + results[2].rect.width < CropX + CropW

\* the positions of the lane's bands that are marked as the main band
MarkedMain(lane) == { k \in 1..Len(lane.bands) : lane.bands[k].isMainBand }

\* C27 (as claimed): in every returned lane, whatever manual overrides the
\* caller supplies, at most one band has isMainBand = true, that band is not
\* excluded, and there is such a band exactly when the lane has a band that
\* is not excluded.
C27_OneMainBand ==
    \A l \in LaneNumbers :
        /\ Cardinality(MarkedMain(results[l])) <= 1
        /\ \A k \in MarkedMain(results[l]) : ~results[l].bands[k].isExcluded
        /\ MarkedMain(results[l]) # {} <=> ActiveBandsOf(results[l]) # <<>>

\* the step is the img.onload of the processing effect that render c set up,
\* and it sets hasAutoInverted or changes invertImage
AutoInversionBy(c) ==
    /\ c \in loads
    /\ loads' = loads \ {c}
    /\ \/ hasAutoInverted' /\ ~hasAutoInverted
       \/ settings'.invertImage # settings.invertImage

\* C28 (as claimed): after a new image is uploaded, the one-time automatic
\* inversion check is evaluated on the newly uploaded image: hasAutoInverted
\* never becomes true, and invertImage is never changed, on the basis of the
\* image loaded before, under any interleaving of the 50 ms processing timer
\* with the image-load callbacks.
C28_InversionCheckedOnNewImage ==
    [][\A c \in loads : AutoInversionBy(c) => c.effectiveImageSrc = originalImageSrc]_vars

\* the ids of a list
IdsOf(list) == { list[k] : k \in 1..Len(list) }

\* the id is a manual band's
IsManualId(bandId) == StartsWithL(bandId) /\ IncludesDashM(bandId)

\* the number of the lane an id names
LaneOfId(bandId) == ParseInt(WithoutL(BeforeDash(bandId)))

\* what a toggle of a detected band's id does
DetectedToggled(bandId) ==
    /\ Includes(excludedBands', bandId) = ~Includes(excludedBands, bandId)
    /\ IdsOf(excludedBands') \ {bandId} = IdsOf(excludedBands) \ {bandId}
    /\ IdsOf(ExcludedToggled(excludedBands', bandId)) = IdsOf(excludedBands)
    /\ userBands' = userBands
    /\ mainBandOverrides' = mainBandOverrides
    /\ bandAdjustments' = bandAdjustments

\* what a confirmed toggle of a manual band's id does
ManualDeleted(bandId) ==
    /\ LaneOfId(bandId) \in DOMAIN userBands'
    /\ userBands'[LaneOfId(bandId)]
          = WithoutBand(UserBandsForLane([userBands |-> userBands], LaneOfId(bandId)), bandId)
    /\ ~\E k \in 1..Len(userBands'[LaneOfId(bandId)]) :
           userBands'[LaneOfId(bandId)][k].id = bandId
    /\ \A lane \in DOMAIN userBands \ {LaneOfId(bandId)} :
           lane \in DOMAIN userBands' /\ userBands'[lane] = userBands[lane]
    /\ excludedBands' = excludedBands
    /\ ~Includes(excludedBands', bandId)

\* C29: toggleExcludeBand of a detected band's id toggles that id's membership
\* in excludedBands, a second application gives back the original set of ids,
\* and userBands, mainBandOverrides and bandAdjustments stay as they are;
\* toggleExcludeBand of a manual band's id, confirmed, removes the band from its
\* lane's userBands and does not add the id to excludedBands.
C29_ToggleExcludeBand ==
    [][\A bandId \in ClickedIds :
          /\ (~IsManualId(bandId) /\ ToggleExcludeBand(bandId, FALSE))
                => DetectedToggled(bandId)
          /\ (IsManualId(bandId) /\ ToggleExcludeBand(bandId, TRUE))
                => ManualDeleted(bandId)]_vars

\* a detected band of lane 10 was excluded and the second manual band of
\* lane 1 is the only one left after a deletion
C29_Witness ==
    /\ toggles = 2
    /\ excludedBands = <<DetectedBandId(10, 1)>>
    /\ 1 \in DOMAIN userBands
    /\ userBands[1] = <<ManualBand(1, 2, 9, 7, 11)>>

\* the entries of a keyed override that are not of lane laneIndex, where
\* laneOf gives the lane of a key
OtherLanes(record, laneIndex, laneOf(_)) ==
    [key \in { k \in DOMAIN record : laneOf(k) # laneIndex } |-> record[key]]

\* what resetLaneOverrides(laneIndex) leaves: every entry of another lane, and
\* none of this one
LaneRemoved(laneIndex) ==
    /\ mainBandOverrides' = OtherLanes(mainBandOverrides, laneIndex, LAMBDA k : k)
    /\ userBands' = OtherLanes(userBands, laneIndex, LAMBDA k : k)
    /\ bandAdjustments' = OtherLanes(bandAdjustments, laneIndex, LaneOfId)
    /\ excludedBands' = SelectSeq(excludedBands, LAMBDA id : LaneOfId(id) # laneIndex)

\* C30: resetLaneOverrides(k) removes exactly the entries of lane k from
\* mainBandOverrides, excludedBands, userBands and bandAdjustments and leaves
\* the entries of every other lane, lane 10 when k = 1 included.
C30_ResetRemovesExactlyLane ==
    [][\A laneIndex \in OverrideLanes :
          ResetLaneOverrides(laneIndex) => LaneRemoved(laneIndex)]_vars

\* lane 1 was reset and the overrides of lane 10 are all there
C30_Witness ==
    /\ DOMAIN mainBandOverrides = {10}
    /\ DOMAIN userBands = {10}
    /\ DOMAIN bandAdjustments = {DetectedBandId(10, 1)}
    /\ excludedBands = <<DetectedBandId(10, 1)>>
====
